---- MODULE Spec2Model ----
(***************************************************************************)
(* Rent-V7 admin console (web/src/App.tsx, components/MetersTable.tsx):    *)
(* tariff resolution, meter accrual, utility due policy, carry ledger,     *)
(* rent due, bill approval.                                                *)
(*                                                                         *)
(* Numbers are integers (money in minor units, meter deltas in whole       *)
(* units); null / undefined is the value Null.  A month string is a record *)
(* [y, m]: the text "YYYY-MM"; EmptyStr is the text "".                    *)
(***************************************************************************)
EXTENDS Integers, Sequences, FiniteSets, TLC

VARIABLES
  tariffs,     \* useState<TariffItem[]>: the global tariff catalog
  apTariffs,   \* useState<ApartmentTariffItem[]>: the selected apartment's overrides
  selected,    \* the selected ApartmentItem, or NoApartment
  row,         \* the history row (HistoryResp["history"][number]) being computed
  tariffOut,   \* last tariff resolution shown
  rowOut,      \* last month-row computation shown
  dueOut,      \* last due computation shown
  history,     \* useState<HistoryResp["history"]>: the rows as the server sent them
  exportOut,   \* the data rows of the last exportHistoryXlsx
  serverYm,    \* useState<string>: the server's current month
  rentOut,     \* last rent computation shown
  billInfo,    \* useState<BillResp | null>: the bill the edit dialog shows
  billLoading, \* useState(false)
  billErr,     \* useState<string | null>: an error message is set
  calls,       \* the handler calls in progress or finished, in the order they began
  server,      \* the bills the server holds, by (apartment, month)
  editOpen,    \* useState(false): the edit dialog is open
  editMonth,   \* useState(""): the month the edit dialog is opened for
  reviewFlags, \* useState<ReviewFlagItem[]>: the open flags as the server sent them
  flagStore,   \* the review flags the server holds
  cellOut,     \* last cell highlight shown
  saveOut      \* the request the last save handler built, if any

ledgerVars == <<history, exportOut>>
rentVars == <<serverYm, rentOut>>
billVars == <<billInfo, billLoading, billErr, calls, server, editOpen, editMonth>>
flagVars == <<reviewFlags, flagStore, cellOut, saveOut>>

vars == <<tariffs, apTariffs, selected, row, tariffOut, rowOut, dueOut, ledgerVars, rentVars, billVars, flagVars>>

Null == -1

\* ---------------------------------------------------------------- bounds
NumMonths == 4
MaxTariffs == 3
MaxOverrides == 2
\* the handlers started on one bill
MaxCalls == 3

\* ---------------------------------------------------------------- month strings
EmptyStr == [y |-> 0, m |-> 0]
NullStr == [y |-> Null, m |-> Null]

Ym(y, m) == [y |-> y, m |-> m]

\* /^\d{4}-\d{2}$/ on the trimmed text
isYm(v) == v.y >= 1000 /\ v.y <= 9999 /\ v.m >= 0 /\ v.m <= 99

\* JS string comparison a < b of month texts: "" sorts before any text, two
\* "YYYY-MM" texts compare digit by digit, i.e. by year and then by month.
StrLt(a, b) ==
  IF a = EmptyStr THEN b # EmptyStr
  ELSE IF b = EmptyStr THEN FALSE
  ELSE a.y < b.y \/ (a.y = b.y /\ a.m < b.m)

StrLe(a, b) == a = b \/ StrLt(a, b)

ymToIndex(ym) == IF ~isYm(ym) THEN Null ELSE ym.y * 12 + ym.m - 1

IndexToYm(i) == Ym(i \div 12, (i % 12) + 1)

\* The months the catalogs' entries start at: 2025-11, 2025-12, 2026-01, ...
FirstIndex == ymToIndex(Ym(2025, 11))
EntryMonths == { IndexToYm(FirstIndex + k) : k \in 0..(NumMonths - 1) }
\* The months asked for: one month before the first entry month up to one after the last.
QueryMonths == { IndexToYm(FirstIndex + k) : k \in (0 - 1)..NumMonths }

\* ---------------------------------------------------------------- tariff records
Variants == 1..3

\* TariffItem; electric_t1 / electric_t2 are optional (old-format rows lack them):
\* variant 1 has neither, variant 2 only electric_t1, variant 3 only electric_t2.
TariffItem(ym, k) ==
  [ ym_from |-> ym,
    cold |-> 10 + k, hot |-> 20 + k, sewer |-> 30 + k,
    electric |-> 40 + k,
    electric_t1 |-> IF k = 2 THEN 50 + k ELSE Null,
    electric_t2 |-> IF k = 3 THEN 60 + k ELSE Null ]

RECURSIVE SeqsOver(_, _)
\* all sequences over S of length 0..n whose ym keys (by key) are pairwise distinct
SeqsOver(S, n) ==
  IF n = 0 THEN { <<>> }
  ELSE LET shorter == SeqsOver(S, n - 1)
       IN shorter \cup
          { Append(s, e) : <<s, e>> \in
              { p \in shorter \X S :
                  /\ Len(p[1]) = n - 1
                  /\ \A i \in 1..Len(p[1]) : p[1][i].key # p[2].key } }

Keyed(items) == { [key |-> e.ym_from, item |-> e] : e \in items }
Unkey(s) == [i \in 1..Len(s) |-> s[i].item]

TariffPool == { TariffItem(ym, k) : ym \in EntryMonths \cup {EmptyStr}, k \in Variants }
Catalogs(n) == { Unkey(s) : s \in SeqsOver(Keyed(TariffPool), n) }

\* ---------------------------------------------------------------- tariff resolution
\* x ?? d
Coalesce(x, d) == IF x = Null THEN d ELSE x

RECURSIVE ScanBestLastWins(_, _, _, _)
\* the scan without the "later than the best so far" test: the last applicable entry wins
ScanBestLastWins(items, m, i, best) ==
  IF i > Len(items) THEN best
  ELSE IF ~isYm(items[i].key) THEN ScanBestLastWins(items, m, i + 1, best)
  ELSE IF StrLe(items[i].key, m)
       THEN ScanBestLastWins(items, m, i + 1, i)
       ELSE ScanBestLastWins(items, m, i + 1, best)

RECURSIVE ScanBest(_, _, _, _)
\* for (const t of items) { if (!isYm(ym)) continue; if (ym <= m) { if (!best || best.ym < ym) best = t } }
\* items are [key, item]; best is an index into items, 0 for null
ScanBest(items, m, i, best) ==
  IF i > Len(items) THEN best
  ELSE IF ~isYm(items[i].key) THEN ScanBest(items, m, i + 1, best)
  ELSE IF StrLe(items[i].key, m) /\ (best = 0 \/ StrLt(items[best].key, items[i].key))
       THEN ScanBest(items, m, i + 1, i)
       ELSE ScanBest(items, m, i + 1, best)

\* the fallback without the sort: the first entry of the array as it came
SortedFirstUnsorted(items) == IF Len(items) = 0 THEN 0 ELSE 1

\* items.slice().sort(by key)[0]: the sort is stable, so the first of the entries
\* with the least key; 0 (undefined ?? null) for an empty array
SortedFirst(items) ==
  IF Len(items) = 0 THEN 0
  ELSE CHOOSE i \in 1..Len(items) :
         /\ \A j \in 1..Len(items) : ~StrLt(items[j].key, items[i].key)
         /\ \A j \in 1..(i - 1) : StrLt(items[i].key, items[j].key)

\* the entry the scan picks, or the fallback when the scan picks none
BestIndex(items, m) ==
  LET best == ScanBest(items, m, 1, 0)
  IN IF best # 0 THEN best ELSE SortedFirst(items)

GlobalKeyed == [i \in 1..Len(tariffs) |-> [key |-> tariffs[i].ym_from, item |-> tariffs[i]]]

NoTariff == [cold |-> 0, hot |-> 0, e1 |-> 0, e2 |-> 0, sewer |-> 0, ym_from |-> NullStr]

\* the returned object with the tier rates read from the tier fields alone
TariffRatesNoLegacy(best) ==
  [ cold |-> Coalesce(best.cold, 0),
    hot |-> Coalesce(best.hot, 0),
    e1 |-> Coalesce(best.electric_t1, 0),
    e2 |-> Coalesce(best.electric_t2, 0),
    sewer |-> Coalesce(best.sewer, 0),
    ym_from |-> best.ym_from ]

\* the object returned for the chosen entry: baseE = electric ?? 0,
\* e1 = electric_t1 ?? baseE, e2 = electric_t2 ?? baseE
TariffRates(best) ==
  [ cold |-> Coalesce(best.cold, 0),
    hot |-> Coalesce(best.hot, 0),
    e1 |-> Coalesce(best.electric_t1, Coalesce(best.electric, 0)),
    e2 |-> Coalesce(best.electric_t2, Coalesce(best.electric, 0)),
    sewer |-> Coalesce(best.sewer, 0),
    ym_from |-> best.ym_from ]

effectiveTariffForMonth(month) ==
  IF ~isYm(month) \/ Len(tariffs) = 0 THEN NoTariff
  ELSE TariffRates(tariffs[BestIndex(GlobalKeyed, month)])

\* ---------------------------------------------------------------- apartment overrides
OvVariants == 1..3

\* ApartmentTariffItem: every rate nullable ("inherit").  Variant 1 sets cold,
\* electric_t2 and rent and carries its month as month_from (the field the save
\* request uses) instead of ym_from; 2 sets hot, sewer, electric_t1, electric_t3;
\* 3 sets only the old single electric rate.
ApartmentTariffItem(ym, j) ==
  [ ym_from |-> IF j = 1 THEN NullStr ELSE ym,
    month_from |-> IF j = 1 THEN ym ELSE NullStr,
    cold |-> IF j = 1 THEN 70 + j ELSE Null,
    hot |-> IF j = 2 THEN 80 + j ELSE Null,
    sewer |-> IF j = 2 THEN 90 + j ELSE Null,
    electric |-> IF j = 3 THEN 100 + j ELSE Null,
    electric_t1 |-> IF j = 2 THEN 110 + j ELSE Null,
    electric_t2 |-> IF j = 1 THEN 120 + j ELSE Null,
    electric_t3 |-> IF j = 2 THEN 130 + j ELSE Null,
    rent |-> IF j = 1 THEN 1000 + j ELSE Null ]

\* String(t.ym_from ?? t.month_from ?? "").trim()
ymFromAny(t) ==
  IF t.ym_from # NullStr THEN t.ym_from
  ELSE IF t.month_from # NullStr THEN t.month_from
  ELSE EmptyStr

OverridePool == { ApartmentTariffItem(ym, j) : ym \in EntryMonths \cup {EmptyStr}, j \in OvVariants }
OvKeyed(items) == { [key |-> ymFromAny(e), item |-> e] : e \in items }
Overrides(n) == { Unkey(s) : s \in SeqsOver(OvKeyed(OverridePool), n) }

ApKeyed == [i \in 1..Len(apTariffs) |-> [key |-> ymFromAny(apTariffs[i]), item |-> apTariffs[i]]]

NoOverride ==
  [ cold |-> Null, hot |-> Null, e1 |-> Null, e2 |-> Null, e3 |-> Null,
    sewer |-> Null, rent |-> Null, ym_from |-> NullStr ]

\* the object returned for the chosen override: baseE = electric ?? null,
\* e1 = electric_t1 ?? baseE, e2 = electric_t2 ?? baseE, ym_from = ymFromAny(best) || null
OverrideRates(best) ==
  [ cold |-> best.cold,
    hot |-> best.hot,
    e1 |-> Coalesce(best.electric_t1, best.electric),
    e2 |-> Coalesce(best.electric_t2, best.electric),
    e3 |-> best.electric_t3,
    sewer |-> best.sewer,
    rent |-> best.rent,
    ym_from |-> IF ymFromAny(best) = EmptyStr THEN NullStr ELSE ymFromAny(best) ]

\* the resolution without the fallback: no override before the first one starts
effectiveApartmentOverrideInForce(month) ==
  IF ~isYm(month) \/ Len(apTariffs) = 0 THEN NoOverride
  ELSE IF ScanBest(ApKeyed, month, 1, 0) = 0 THEN NoOverride
  ELSE OverrideRates(apTariffs[ScanBest(ApKeyed, month, 1, 0)])

effectiveApartmentOverrideForMonth(month) ==
  IF ~isYm(month) \/ Len(apTariffs) = 0 THEN NoOverride
  ELSE OverrideRates(apTariffs[BestIndex(ApKeyed, month)])

\* the merge with a copied line: sewer falls back to the global hot rate
MergeTariffWrongField(base, ov) ==
  [ cold |-> IF ov.cold # Null THEN ov.cold ELSE base.cold,
    hot |-> IF ov.hot # Null THEN ov.hot ELSE base.hot,
    e1 |-> IF ov.e1 # Null THEN ov.e1 ELSE base.e1,
    e2 |-> IF ov.e2 # Null THEN ov.e2 ELSE base.e2,
    sewer |-> IF ov.sewer # Null THEN ov.sewer ELSE base.hot,
    rent |-> IF ov.rent # Null THEN ov.rent ELSE Null,
    ym_from |-> IF ov.ym_from # NullStr THEN ov.ym_from ELSE base.ym_from,
    source |-> IF ov.ym_from # NullStr /\ ov.ym_from # EmptyStr THEN "apartment"
               ELSE IF base.ym_from # NullStr /\ base.ym_from # EmptyStr THEN "global"
               ELSE "none" ]

\* the merge in which the more recent of the two entries wins
MergeTariffMostRecent(base, ov) ==
  LET ovWins == ov.ym_from # NullStr /\ (base.ym_from = NullStr \/ ~StrLt(ov.ym_from, base.ym_from))
  IN [ cold |-> IF ovWins /\ ov.cold # Null THEN ov.cold ELSE base.cold,
       hot |-> IF ovWins /\ ov.hot # Null THEN ov.hot ELSE base.hot,
       e1 |-> IF ovWins /\ ov.e1 # Null THEN ov.e1 ELSE base.e1,
       e2 |-> IF ovWins /\ ov.e2 # Null THEN ov.e2 ELSE base.e2,
       sewer |-> IF ovWins /\ ov.sewer # Null THEN ov.sewer ELSE base.sewer,
       rent |-> IF ovWins /\ ov.rent # Null THEN ov.rent ELSE Null,
       ym_from |-> IF ovWins THEN ov.ym_from ELSE base.ym_from,
       source |-> IF ovWins /\ ov.ym_from # EmptyStr THEN "apartment"
                  ELSE IF base.ym_from # NullStr /\ base.ym_from # EmptyStr THEN "global"
                  ELSE "none" ]

\* the field-by-field merge of the two resolutions
MergeTariff(base, ov) ==
  [ cold |-> IF ov.cold # Null THEN ov.cold ELSE base.cold,
    hot |-> IF ov.hot # Null THEN ov.hot ELSE base.hot,
    e1 |-> IF ov.e1 # Null THEN ov.e1 ELSE base.e1,
    e2 |-> IF ov.e2 # Null THEN ov.e2 ELSE base.e2,
    sewer |-> IF ov.sewer # Null THEN ov.sewer ELSE base.sewer,
    rent |-> IF ov.rent # Null THEN ov.rent ELSE Null,
    ym_from |-> IF ov.ym_from # NullStr THEN ov.ym_from ELSE base.ym_from,
    source |-> IF ov.ym_from # NullStr /\ ov.ym_from # EmptyStr THEN "apartment"
               ELSE IF base.ym_from # NullStr /\ base.ym_from # EmptyStr THEN "global"
               ELSE "none" ]

effectiveTariffForMonthForSelected(month) ==
  MergeTariff(effectiveTariffForMonth(month), effectiveApartmentOverrideForMonth(month))

\* ---------------------------------------------------------------- texts with a month in them
\* A text given to normalizeYmAny is its digit runs, each [len, val], and whether the
\* runs are joined by exactly one of  - . / _  each with nothing else around them.
\* "" (and String(null ?? "")) is NoText.
NoText == [toks |-> <<>>, dash |-> TRUE]
IsoDate(y, m, d) ==
  [toks |-> <<[len |-> 4, val |-> y], [len |-> 2, val |-> m], [len |-> 2, val |-> d]>>, dash |-> TRUE]
YmText(ym) ==
  IF ym = NullStr \/ ym = EmptyStr THEN NoText
  ELSE [toks |-> <<[len |-> 4, val |-> ym.y], [len |-> 2, val |-> ym.m]>>, dash |-> TRUE]

YearOk(y) == y >= 1900 /\ y <= 2100
MonthOk(mm) == mm >= 1 /\ mm <= 12

\* for (const n of nums) if (n.length === 4 && 1900 <= n <= 2100) { year = n; break }
FirstYearToken(toks) ==
  LET hits == { i \in 1..Len(toks) : toks[i].len = 4 /\ YearOk(toks[i].val) }
  IN IF hits = {} THEN Null
     ELSE toks[CHOOSE i \in hits : \A j \in hits : i <= j].val

\* for (const n of nums) if (1 <= n <= 12) { month = n; break }
FirstMonthToken(toks) ==
  LET hits == { i \in 1..Len(toks) : MonthOk(toks[i].val) }
  IN IF hits = {} THEN Null
     ELSE toks[CHOOSE i \in hits : \A j \in hits : i <= j].val

normalizeYmAny(v) ==
  LET t == v.toks
      n == Len(t)
  IN IF n = 0 THEN NullStr
     ELSE IF v.dash /\ n = 2 /\ t[1].len = 4 /\ t[2].len \in {1, 2}
              /\ YearOk(t[1].val) /\ MonthOk(t[2].val)
          THEN Ym(t[1].val, t[2].val)
     ELSE IF v.dash /\ n = 2 /\ t[1].len \in {1, 2} /\ t[2].len = 4
              /\ YearOk(t[2].val) /\ MonthOk(t[1].val)
          THEN Ym(t[2].val, t[1].val)
     ELSE IF v.dash /\ n = 1 /\ t[1].len = 6
              /\ YearOk(t[1].val \div 100) /\ MonthOk(t[1].val % 100)
          THEN Ym(t[1].val \div 100, t[1].val % 100)
     ELSE IF n >= 2
          THEN LET y1 == FirstYearToken(t)
                   year == IF y1 = Null /\ t[n].len = 2 THEN 2000 + t[n].val ELSE y1
                   month == FirstMonthToken(t)
               IN IF year # Null /\ month # Null THEN Ym(year, month) ELSE NullStr
     ELSE NullStr

\* ---------------------------------------------------------------- the selected apartment
NoApartment == [id |-> 0]

Modes == {"by_actual_monthly", "fixed_monthly", "quarterly_advance"}

\* ApartmentItem, the fields the computations read; tenant_since and
\* utilities_advance_anchor_ym are texts
Apartment(ee, since, rent, chat, mode, fixed, amount, cycle, anchor) ==
  [ id |-> 1, electric_expected |-> ee, tenant_since |-> since, rent_monthly |-> rent,
    has_active_chat |-> chat, utilities_mode |-> mode, utilities_fixed_monthly |-> fixed,
    utilities_advance_amount |-> amount, utilities_advance_cycle_months |-> cycle,
    utilities_advance_anchor_ym |-> anchor,
    statuses |-> [rent_paid |-> FALSE] ]

\* the same apartment with statuses.rent_paid as given
WithRentPaid(a, paid) == [a EXCEPT !.statuses.rent_paid = paid]

\* Number(x ?? d) || d   (0 and null both give d)
NumberOr(x, d) == IF x = Null \/ x = 0 THEN d ELSE x

Max(a, b) == IF a >= b THEN a ELSE b
Min(a, b) == IF a <= b THEN a ELSE b

\* Math.max(1, Math.min(3, Number(selected?.electric_expected ?? 1) || 1))
eN == IF selected = NoApartment THEN 1 ELSE Max(1, Min(3, NumberOr(selected.electric_expected, 1)))

\* ---------------------------------------------------------------- month rows
Cell(current, delta, source) == [current |-> current, delta |-> delta, source |-> source]

NoUtilities == [actual_accrual |-> Null, planned_due |-> Null, carry_balance |-> Null]

emptyMonthRow(month) ==
  [ month |-> month,
    cold |-> Cell(Null, Null, ""), hot |-> Cell(Null, Null, ""),
    t1 |-> Cell(Null, Null, ""), t2 |-> Cell(Null, Null, ""), t3 |-> Cell(Null, Null, ""),
    sewer |-> Cell(Null, Null, ""),
    utilities |-> NoUtilities ]

NoRow == emptyMonthRow(EmptyStr)

\* x || 0
OrZero(x) == IF x = Null THEN 0 ELSE x

\* delta == null ? null : delta * (rate || 0)
Rub(delta, rate) == IF delta = Null THEN Null ELSE delta * OrZero(rate)

\* calcSewerDelta without the "|| null": a zero sum of cold and hot is returned as 0
calcSewerDeltaKeepZero(h) ==
  IF h.sewer.delta # Null THEN h.sewer.delta
  ELSE Coalesce(h.cold.delta, 0) + Coalesce(h.hot.delta, 0)

calcSewerDelta(h) ==
  IF h.sewer.delta # Null THEN h.sewer.delta
  ELSE LET sum == Coalesce(h.cold.delta, 0) + Coalesce(h.hot.delta, 0)
       IN IF sum = 0 THEN Null ELSE sum

RECURSIVE SumSeq(_)
SumSeq(q) == IF Len(q) = 0 THEN 0 ELSE Head(q) + SumSeq(Tail(q))

calcSumRub(rc, rh, re1, re2, rs) ==
  LET parts == SelectSeq(<<rc, rh, re1, re2, rs>>, LAMBDA x : x # Null)
  IN IF Len(parts) = 0 THEN Null ELSE SumSeq(parts)

\* rc, rh, re1, re2, rs of a row under the tariff t, with the sewer delta ds
AccrualsAt(h, t, ds) ==
  [ ds |-> ds,
    rc |-> Rub(h.cold.delta, t.cold),
    rh |-> Rub(h.hot.delta, t.hot),
    re1 |-> Rub(h.t1.delta, t.e1),
    re2 |-> Rub(h.t2.delta, t.e2),
    rs |-> Rub(ds, t.sewer) ]

\* the accruals every total starts from:
\* t = effectiveTariffForMonthForSelected(h.month), ds = calcSewerDelta(h)
Accruals(h) == AccrualsAt(h, effectiveTariffForMonthForSelected(h.month), calcSewerDelta(h))

\* calcSumRub(rc, rh, re1, re2, rs)
SumAll(a) == calcSumRub(a.rc, a.rh, a.re1, a.re2, a.rs)

\* calcSumRub(rc, rh, eN >= 1 ? re1 : null, eN >= 2 ? re2 : null, rs)
SumExpected(a, n) ==
  calcSumRub(a.rc, a.rh, IF n >= 1 THEN a.re1 ELSE Null, IF n >= 2 THEN a.re2 ELSE Null, a.rs)

\* String(source ?? "").toLowerCase()
Lower(src) == IF src = "OCR" THEN "ocr" ELSE src

\* MetersTable completeness without the OCR test on T3
TableCompleteNoOcr(h, n) ==
  /\ h.cold.current # Null
  /\ h.hot.current # Null
  /\ ~(n >= 1 /\ h.t1.current = Null)
  /\ ~(n >= 2 /\ h.t2.current = Null)
  /\ ~(n >= 3 /\ h.t3.current = Null)

\* MetersTable: isComplete = !missingCold && !missingHot && !missingE1 && !missingE2 && !missingE3
TableComplete(h, n) ==
  /\ h.cold.current # Null
  /\ h.hot.current # Null
  /\ ~(n >= 1 /\ h.t1.current = Null)
  /\ ~(n >= 2 /\ h.t2.current = Null)
  /\ ~(n >= 3 /\ (h.t3.current = Null \/ Lower(h.t3.source) # "ocr"))

\* the table total that always adds T2
TableSumAlwaysT2(h, n) ==
  IF TableComplete(h, n) THEN SumAll(Accruals(h)) ELSE Null

\* MetersTable: sumFact
TableSum(h, n) ==
  IF TableComplete(h, n) THEN SumExpected(Accruals(h), n) ELSE Null

\* MetersTable, the earlier version of the component kept in the same file: no gate
TableSumUngated(h, n) == SumExpected(Accruals(h), n)

\* latestRowComputed: isComplete (no OCR test) and counters (T2 always passed)
SummaryComplete(h) ==
  /\ h.cold.current # Null
  /\ h.hot.current # Null
  /\ h.t1.current # Null
  /\ (eN < 2 \/ h.t2.current # Null)
  /\ (eN < 3 \/ h.t3.current # Null)

SummaryCounters(h) ==
  IF SummaryComplete(h) THEN SumAll(Accruals(h)) ELSE Null

\* sum: counters == null ? null : counters + rent
WithRent(counters, rent) == IF counters = Null THEN Null ELSE counters + rent

\* exportHistoryXlsx: sum of one row
ExportSum(h) == SumAll(Accruals(h))

\* exportHistoryXlsx: actualAccrual = h.utilities?.actual_accrual ?? sum
ExportActual(h) == Coalesce(h.utilities.actual_accrual, ExportSum(h))

\* ---------------------------------------------------------------- rent and utility due
\* JS remainder a % b for b > 0: the sign follows the dividend
JsRem(a, b) == IF a >= 0 THEN a % b ELSE 0 - ((0 - a) % b)

\* the rent charged from the first month on, the tenant_since test left out
effectiveRentForMonthNoGuard(ym) ==
  IF selected = NoApartment THEN 0
  ELSE LET rent == Coalesce(selected.rent_monthly, 0)
       IN IF rent <= 0 THEN 0
          ELSE IF ~selected.has_active_chat THEN 0
          ELSE rent

effectiveRentForMonth(ym) ==
  IF selected = NoApartment THEN 0
  ELSE LET rent == Coalesce(selected.rent_monthly, 0)
           fromYm == normalizeYmAny(selected.tenant_since)
       IN IF rent <= 0 THEN 0
          ELSE IF ~selected.has_active_chat THEN 0
          ELSE IF fromYm # NullStr /\ isYm(ym) /\ StrLt(ym, fromYm) THEN 0
          ELSE rent

\* ---------------------------------------------------------------- rent due date
\* An instant is a calendar day (month, day of month) and whether it is later than
\* that day's local midnight.
Instant(ym, d, late) == [ym |-> ym, d |-> d, late |-> late]

IsLeap(y) == (y % 4 = 0 /\ y % 100 # 0) \/ y % 400 = 0

\* new Date(y, mm, 0).getDate() by month index y * 12 + mm - 1: a month number out
\* of 1..12 rolls over into the neighbouring year
DaysInMonth(i) ==
  IF (i % 12) + 1 \in {4, 6, 9, 11} THEN 30
  ELSE IF (i % 12) + 1 = 2 THEN (IF IsLeap(i \div 12) THEN 29 ELSE 28)
  ELSE 31

\* the month index days are counted from
EpochIndex == ymToIndex(Ym(2025, 1))

RECURSIVE DaysBefore(_)
\* days from the epoch to the first day of the month of index i
DaysBefore(i) == IF i <= EpochIndex THEN 0 ELSE DaysBefore(i - 1) + DaysInMonth(i - 1)

\* the day new Date(y, mm - 1, d) falls on, counted from the epoch
DayNumber(ym, d) == DaysBefore(ym.y * 12 + ym.m - 1) + d

\* tenantSince.match(/^(\d{4})-(\d{2})-(\d{2})$/); the separators of the texts
\* modelled are hyphens
IsIsoDate(text) ==
  /\ text.dash /\ Len(text.toks) = 3
  /\ text.toks[1].len = 4 /\ text.toks[2].len = 2 /\ text.toks[3].len = 2

\* Math.max(1, Math.min(31, Number(m[3])))
DueDay(text) == Max(1, Min(31, text.toks[3].val))

\* the due date without the clamp to the month's length: day 31 of a shorter month
\* rolls over into the next month
DueDateNumberNoClamp(ym, dueDay) == DayNumber(ym, dueDay)

\* new Date(y, mm - 1, Math.min(dueDay, new Date(y, mm, 0).getDate()))
DueDateNumber(ym, dueDay) == DayNumber(ym, Min(dueDay, DaysInMonth(ym.y * 12 + ym.m - 1)))

\* now > grace, grace being the midnight that begins the day after the due date
AfterGrace(now, dueDateNumber) ==
  \/ DayNumber(now.ym, now.d) > dueDateNumber + 1
  \/ (DayNumber(now.ym, now.d) = dueDateNumber + 1 /\ now.late)

\* overdue reported for any month, the test against serverYm left out
OverdueAnyMonth(ym, now, dueDay) ==
  /\ ~selected.statuses.rent_paid
  /\ AfterGrace(now, DueDateNumber(ym, dueDay))

\* isUnpaid && now > grace && ym === serverYm
Overdue(ym, now, dueDay) ==
  /\ ~selected.statuses.rent_paid
  /\ AfterGrace(now, DueDateNumber(ym, dueDay))
  /\ ym = serverYm

rentDueInfoForMonth(ym, now) ==
  IF selected = NoApartment THEN [day |-> Null, overdue |-> FALSE]
  ELSE IF ~IsIsoDate(selected.tenant_since) THEN [day |-> Null, overdue |-> FALSE]
  ELSE IF ~isYm(ym) THEN [day |-> DueDay(selected.tenant_since), overdue |-> FALSE]
  ELSE [ day |-> DueDay(selected.tenant_since),
         overdue |-> Overdue(ym, now, DueDay(selected.tenant_since)) ]

\* normalizeYmAny(String(selected.tenant_since ?? ""))
TenantSinceYm == normalizeYmAny(selected.tenant_since)

\* the guard left out
BeforeTenancyNever(ym) == FALSE

\* tenantSinceYm && ym < tenantSinceYm
BeforeTenancy(ym) == TenantSinceYm # NullStr /\ StrLt(ym, TenantSinceYm)

\* the fixed fee made to wait for the month's accrual
FixedDueNeedsActual(actual) ==
  LET fixed == Coalesce(selected.utilities_fixed_monthly, 0)
  IN IF actual = Null THEN Null ELSE IF fixed > 0 THEN fixed ELSE 0

\* mode === "fixed_monthly"
FixedDue(actual) ==
  LET fixed == Coalesce(selected.utilities_fixed_monthly, 0)
  IN IF fixed > 0 THEN fixed ELSE 0

\* the advance owed only from the anchor month on: no cycle start before the anchor
QuarterlyDueForwardOnly(ym) ==
  LET amount == Coalesce(selected.utilities_advance_amount, 0)
      cycle == Max(2, NumberOr(selected.utilities_advance_cycle_months, 3))
      a1 == normalizeYmAny(selected.utilities_advance_anchor_ym)
      anchor == IF a1 # NullStr THEN a1 ELSE IF TenantSinceYm # NullStr THEN TenantSinceYm ELSE ym
      yi == ymToIndex(ym)
      ai == ymToIndex(anchor)
      isStart == IF yi # Null /\ ai # Null THEN yi >= ai /\ JsRem(yi - ai, cycle) = 0 ELSE TRUE
  IN IF isStart /\ amount > 0 THEN amount ELSE 0

\* the anchor taken from utilities_advance_anchor_ym or else the target month,
\* tenant_since left out
QuarterlyDueAnchorSkipsSince(ym) ==
  LET amount == Coalesce(selected.utilities_advance_amount, 0)
      cycle == Max(2, NumberOr(selected.utilities_advance_cycle_months, 3))
      a1 == normalizeYmAny(selected.utilities_advance_anchor_ym)
      anchor == IF a1 # NullStr THEN a1 ELSE ym
      yi == ymToIndex(ym)
      ai == ymToIndex(anchor)
      isStart == IF yi # Null /\ ai # Null THEN JsRem(yi - ai, cycle) = 0 ELSE TRUE
  IN IF isStart /\ amount > 0 THEN amount ELSE 0

\* mode === "quarterly_advance"
QuarterlyDue(ym) ==
  LET amount == Coalesce(selected.utilities_advance_amount, 0)
      cycle == Max(2, NumberOr(selected.utilities_advance_cycle_months, 3))
      a1 == normalizeYmAny(selected.utilities_advance_anchor_ym)
      anchor == IF a1 # NullStr THEN a1 ELSE IF TenantSinceYm # NullStr THEN TenantSinceYm ELSE ym
      yi == ymToIndex(ym)
      ai == ymToIndex(anchor)
      isStart == IF yi # Null /\ ai # Null THEN JsRem(yi - ai, cycle) = 0 ELSE TRUE
  IN IF isStart /\ amount > 0 THEN amount ELSE 0

\* utilities_mode: null
NoMode == ""

plannedUtilitiesForMonth(ym, actual) ==
  IF selected = NoApartment THEN actual
  ELSE IF ~isYm(ym) THEN actual
  ELSE LET mode == IF selected.utilities_mode = NoMode THEN "by_actual_monthly" ELSE selected.utilities_mode
       IN IF BeforeTenancy(ym) THEN 0
          ELSE IF mode = "fixed_monthly" THEN FixedDue(actual)
          ELSE IF mode = "quarterly_advance" THEN QuarterlyDue(ym)
          ELSE actual

\* exportHistoryXlsx: plannedDue = h.utilities?.planned_due ?? plannedUtilitiesForMonth(h.month, actualAccrual)
ExportPlanned(h) ==
  Coalesce(h.utilities.planned_due, plannedUtilitiesForMonth(h.month, ExportActual(h)))

\* ---------------------------------------------------------------- carry ledger
\* the row a stable sort by String(month) puts first: the first of the rows with
\* the least month
FirstByMonth(rows) ==
  CHOOSE i \in 1..Len(rows) :
    /\ \A j \in 1..Len(rows) : ~StrLt(rows[j].month, rows[i].month)
    /\ \A j \in 1..(i - 1) : StrLt(rows[i].month, rows[j].month)

RemoveAt(q, i) == SubSeq(q, 1, i - 1) \o SubSeq(q, i + 1, Len(q))

\* the rows taken in the order the server sent them
SortByMonthAsGiven(rows) == rows

RECURSIVE SortByMonth(_)
RECURSIVE SortFrom(_, _)
\* (history ?? []).slice().sort((a, b) => String(a.month).localeCompare(String(b.month)))
SortByMonth(rows) == IF rows = <<>> THEN <<>> ELSE SortFrom(rows, FirstByMonth(rows))
SortFrom(rows, i) == <<rows[i]>> \o SortByMonth(RemoveAt(rows, i))

\* the running balance that adds the due and forgets to take off the accrual
CarryNextDueOnly(carryCalc, carryBalance, plannedDue, actualAccrual) ==
  IF carryBalance = Null THEN carryCalc + OrZero(plannedDue)
  ELSE OrZero(carryBalance)

\* if (carryBalance == null) carryCalc = carryCalc + Number(plannedDue || 0) - Number(actualAccrual || 0)
\* else carryCalc = Number(carryBalance || 0)
CarryNext(carryCalc, carryBalance, plannedDue, actualAccrual) ==
  IF carryBalance = Null THEN carryCalc + OrZero(plannedDue) - OrZero(actualAccrual)
  ELSE OrZero(carryBalance)

\* rent > 0 ? rent : null
RentCell(rent) == IF rent > 0 THEN rent ELSE Null

\* one data row of the export, after the rows before it left the balance carryCalc
ExportRow(h, carryCalc) ==
  [ month |-> h.month,
    actual |-> ExportActual(h),
    planned |-> ExportPlanned(h),
    carry |-> CarryNext(carryCalc, h.utilities.carry_balance, ExportPlanned(h), ExportActual(h)),
    rent |-> RentCell(effectiveRentForMonth(h.month)),
    sum |-> ExportSum(h) ]

RECURSIVE ExportData(_, _, _, _)
RECURSIVE ExportPush(_, _, _, _)
\* let carryCalc = 0; for (const h of rows) { ...; data.push({...}) }
ExportData(rows, i, carryCalc, data) ==
  IF i > Len(rows) THEN data
  ELSE ExportPush(rows, i, ExportRow(rows[i], carryCalc), data)
ExportPush(rows, i, r, data) == ExportData(rows, i + 1, r.carry, Append(data, r))

\* latestUtilitiesPlanned for the row of the current month: the planned_due the
\* history recorded, else plannedUtilitiesForMonth(latestMonth, latestRowComputed.counters)
latestUtilitiesPlanned(h) ==
  Coalesce(h.utilities.planned_due, plannedUtilitiesForMonth(h.month, SummaryCounters(h)))

\* p == null ? null : Number(p) + Number(latestRentAmount || 0)
PlusRent(p, rentAmount) == IF p = Null THEN Null ELSE p + rentAmount

\* latestTotalPlanned; latestRentAmount = effectiveRentForMonth(latestMonth)
latestTotalPlanned(h) == PlusRent(latestUtilitiesPlanned(h), effectiveRentForMonth(h.month))

\* ---------------------------------------------------------------- state machine
NoTariffOut ==
  [ done |-> FALSE, month |-> EmptyStr, base |-> NoTariff, ov |-> NoOverride,
    merged |-> MergeTariff(NoTariff, NoOverride) ]

NoRowOut ==
  [ done |-> FALSE, by |-> "none", n |-> 0, ds |-> Null, rc |-> Null, rh |-> Null,
    re1 |-> Null, re2 |-> Null, rs |-> Null, sum |-> Null, actual |-> Null,
    planned |-> Null, total |-> Null ]

NoDueOut == [done |-> FALSE, ym |-> EmptyStr, actual |-> Null, due |-> Null]

\* a render asks for the effective tariff of one month
ResolveTariff(month) ==
  /\ tariffOut' =
       [ done |-> TRUE, month |-> month,
         base |-> effectiveTariffForMonth(month),
         ov |-> effectiveApartmentOverrideForMonth(month),
         merged |-> effectiveTariffForMonthForSelected(month) ]
  /\ UNCHANGED <<tariffs, apTariffs, selected, row, rowOut, dueOut, ledgerVars, rentVars, billVars, flagVars>>

\* loadTariffs, catch branch: setTariffs([])
LoadTariffsFailed ==
  /\ tariffs # <<>>
  /\ tariffs' = <<>>
  /\ tariffOut' = NoTariffOut
  /\ UNCHANGED <<apTariffs, selected, row, rowOut, dueOut, ledgerVars, rentVars, billVars, flagVars>>

\* loadApartmentTariffs, catch branch: setApTariffs([])
LoadApartmentTariffsFailed ==
  /\ apTariffs # <<>>
  /\ apTariffs' = <<>>
  /\ tariffOut' = NoTariffOut
  /\ UNCHANGED <<tariffs, selected, row, rowOut, dueOut, ledgerVars, rentVars, billVars, flagVars>>

RowResult(by, a, sum, actual, planned, total) ==
  [ done |-> TRUE, by |-> by, n |-> eN, ds |-> a.ds, rc |-> a.rc, rh |-> a.rh,
    re1 |-> a.re1, re2 |-> a.re2, rs |-> a.rs, sum |-> sum, actual |-> actual,
    planned |-> planned, total |-> total ]

\* MetersTable renders the row: sumFact
MetersTableRow ==
  /\ rowOut' = RowResult("table", Accruals(row), TableSum(row, eN), Null, Null, Null)
  /\ UNCHANGED <<tariffs, apTariffs, selected, row, tariffOut, dueOut, ledgerVars, rentVars, billVars, flagVars>>

\* the earlier MetersTable renders the row: sum
MetersTableRowUngated ==
  /\ rowOut' = RowResult("tableUngated", Accruals(row), TableSumUngated(row, eN), Null, Null, Null)
  /\ UNCHANGED <<tariffs, apTariffs, selected, row, tariffOut, dueOut, ledgerVars, rentVars, billVars, flagVars>>

\* latestRowComputed for the row as the current month's row: counters and sum (with rent)
LatestRowComputed ==
  /\ rowOut' = RowResult("summary", Accruals(row), SummaryCounters(row), Null, Null,
                         WithRent(SummaryCounters(row), effectiveRentForMonth(row.month)))
  /\ UNCHANGED <<tariffs, apTariffs, selected, row, tariffOut, dueOut, ledgerVars, rentVars, billVars, flagVars>>

\* the summary cards for the row as the current month's row: counters,
\* latestUtilitiesPlanned and latestTotalPlanned
LatestPlanned ==
  /\ rowOut' = RowResult("planned", Accruals(row), SummaryCounters(row), Null,
                         latestUtilitiesPlanned(row), latestTotalPlanned(row))
  /\ UNCHANGED <<tariffs, apTariffs, selected, row, tariffOut, dueOut, ledgerVars, rentVars, billVars, flagVars>>

\* exportHistoryXlsx computes the row: sum, actualAccrual, plannedDue
ExportHistoryRow ==
  /\ rowOut' = RowResult("export", Accruals(row), ExportSum(row), ExportActual(row), ExportPlanned(row), Null)
  /\ UNCHANGED <<tariffs, apTariffs, selected, row, tariffOut, dueOut, ledgerVars, rentVars, billVars, flagVars>>

\* exportHistoryXlsx: the rows sorted by month, the balance carried from row to row
exportHistoryXlsx ==
  /\ exportOut' = ExportData(SortByMonth(history), 1, 0, <<>>)
  /\ UNCHANGED <<tariffs, apTariffs, selected, row, tariffOut, rowOut, dueOut, history, rentVars, billVars, flagVars>>

\* effectiveRentForMonth(ym)
EffectiveRent(ym) ==
  /\ rentOut' = [ done |-> TRUE, by |-> "rent", ym |-> ym, now |-> 0,
                  rent |-> effectiveRentForMonth(ym), day |-> Null, overdue |-> FALSE ]
  /\ UNCHANGED <<tariffs, apTariffs, selected, row, tariffOut, rowOut, dueOut, ledgerVars, serverYm, billVars, flagVars>>

\* rentDueInfoForMonth(ym) evaluated at the instant now
RentDueInfo(ym, now) ==
  /\ rentOut' = [ done |-> TRUE, by |-> "due", ym |-> ym, now |-> now, rent |-> 0,
                  day |-> rentDueInfoForMonth(ym, now).day,
                  overdue |-> rentDueInfoForMonth(ym, now).overdue ]
  /\ UNCHANGED <<tariffs, apTariffs, selected, row, tariffOut, rowOut, dueOut, ledgerVars, serverYm, billVars, flagVars>>

\* plannedUtilitiesForMonth(ym, actual)
PlanUtilities(ym, actual) ==
  /\ dueOut' = [done |-> TRUE, ym |-> ym, actual |-> actual, due |-> plannedUtilitiesForMonth(ym, actual)]
  /\ UNCHANGED <<tariffs, apTariffs, selected, row, tariffOut, rowOut, ledgerVars, rentVars, billVars, flagVars>>

\* nothing exported yet
NoExport == <<>>

NoRentOut ==
  [ done |-> FALSE, by |-> "none", ym |-> EmptyStr, now |-> 0, rent |-> 0,
    day |-> Null, overdue |-> FALSE ]

\* billInfo = null
NoBill ==
  [ bill |-> FALSE, apartment_id |-> Null, ym |-> EmptyStr, reason |-> "", missing |-> <<>>,
    approved |-> FALSE, sent |-> FALSE ]

\* no bill on the server side
NoServer == [reason |-> "", missing |-> <<>>, approved |-> FALSE, sent |-> FALSE, sends |-> 0]

\* the server holds no bill at all
NoBills == [k \in {} |-> NoServer]

\* no cell rendered yet
NoCellOut ==
  [ done |-> FALSE, n |-> 0, month |-> EmptyStr, meter_type |-> "", meter_index |-> 0,
    missing |-> FALSE, flag |-> 0, noted |-> FALSE, mode |-> "none" ]

InitOuts ==
  /\ tariffOut = NoTariffOut
  /\ rowOut = NoRowOut
  /\ dueOut = NoDueOut
  /\ exportOut = NoExport
  /\ rentOut = NoRentOut

\* no history loaded
InitNoHistory == history = <<>>

\* serverYm before the first poll
InitNoServerYm == serverYm = EmptyStr

\* the edit dialog was never opened
InitNoBill ==
  /\ billInfo = NoBill
  /\ billLoading = FALSE
  /\ billErr = FALSE
  /\ calls = <<>>
  /\ server = NoBills
  /\ editOpen = FALSE
  /\ editMonth = EmptyStr

\* no save handler has run: nothing was sent
NoPayload ==
  [ ym |-> NullStr, cold |-> Null, hot |-> Null, sewer |-> Null,
    electric |-> Null, electric_t1 |-> Null, electric_t2 |-> Null, electric_t3 |-> Null ]
NoSaveOut ==
  [ done |-> FALSE, form |-> "", month |-> NoText,
    fields |-> [cold |-> "", hot |-> "", sewer |-> "", e1 |-> "", e2 |-> "", e3 |-> ""],
    sent |-> FALSE, err |-> FALSE, payload |-> NoPayload ]

\* no review flag loaded, none on the server, nothing saved
InitNoFlags ==
  /\ reviewFlags = <<>>
  /\ flagStore = <<>>
  /\ cellOut = NoCellOut
  /\ saveOut = NoSaveOut

\* ---------------------------------------------------------------- bill approval
\* billInfo is the client's copy of GET /bill: apartment_id, ym, bill.reason,
\* bill.missing, state.approved_at and state.sent_at (as booleans); billErr is
\* whether an error text is set.  server is the bills as the backend holds them,
\* by (apartment, month): the verdict from the readings (reason, missing),
\* BillState, and the deliveries made.  flagStore is the backend's review flags.
\* calls are the handlers started so far, each at its position:
\*   "post"    the POST is in flight        "posted"   the POST was answered
\*   "get"     loadBill's GET is in flight  "resp"     the GET was answered
\*   "history" loadHistory's GETs are in flight  "histresp" they were answered
\*   "done", "failed"
\* and, for the load of the apartment's overrides started with a selection,
\* tariffs: "none", "get", "done".
MissingE3 == <<"electric_3">>

BillMonth == Ym(2026, 1)

\* the (apartment, month) a request names
Key(apartmentId, ym) == [apartment_id |-> apartmentId, ym |-> ym]

Call(kind, key, send, pc, shown) ==
  [ kind |-> kind, key |-> key, send |-> send, pc |-> pc, shown |-> shown,
    flag |-> 0, data |-> NoBill, rows |-> <<>>, flags |-> <<>>, tariffs |-> "none" ]

\* the calls of approveBill and sendBillWithoutT3Photo
IsBillPost(call) == call.kind \in {"approve", "sendT3"}

\* ---- review flags
ReviewFlagItem(id, apartmentId, ym, meterType, meterIndex, status) ==
  [ id |-> id, apartment_id |-> apartmentId, ym |-> ym, meter_type |-> meterType,
    meter_index |-> meterIndex, status |-> status ]

\* getReviewFlag(...) || null
NoFlag == ReviewFlagItem(0, 0, EmptyStr, "", 0, "")

\* String(x || "").toLowerCase() of a meter type or a status
toLowerCase(w) ==
  CASE w = "OPEN" -> "open"
    [] w = "Cold" -> "cold"
    [] OTHER -> w

\* the test of getReviewFlag's find, the status left out
FlagMatchesAnyStatus(f, month, meterType, meterIndex) ==
  /\ f.ym = month
  /\ toLowerCase(f.meter_type) = toLowerCase(meterType)
  /\ NumberOr(f.meter_index, 1) = NumberOr(meterIndex, 1)

\* the test of getReviewFlag's find: same month, same type in lower case, same
\* index (none or 0 is 1), status "open" in lower case
FlagMatches(f, month, meterType, meterIndex) ==
  /\ f.ym = month
  /\ toLowerCase(f.meter_type) = toLowerCase(meterType)
  /\ NumberOr(f.meter_index, 1) = NumberOr(meterIndex, 1)
  /\ toLowerCase(f.status) = "open"

\* flags.find(test) || null
FindFlag(flags, month, meterType, meterIndex) ==
  IF \E i \in 1..Len(flags) : FlagMatches(flags[i], month, meterType, meterIndex)
  THEN flags[CHOOSE i \in 1..Len(flags) :
               /\ FlagMatches(flags[i], month, meterType, meterIndex)
               /\ \A j \in 1..(i - 1) : ~FlagMatches(flags[j], month, meterType, meterIndex)]
  ELSE NoFlag

getReviewFlag(month, meterType, meterIndex) == FindFlag(reviewFlags, month, meterType, meterIndex)

\* the cells of a table row: cold, hot, T1..T3, sewer
MeterCells ==
  { [meter_type |-> "cold", meter_index |-> 1], [meter_type |-> "hot", meter_index |-> 1],
    [meter_type |-> "electric", meter_index |-> 1], [meter_type |-> "electric", meter_index |-> 2],
    [meter_type |-> "electric", meter_index |-> 3], [meter_type |-> "sewer", meter_index |-> 1] }

\* MetersTable renders the electric columns T1..Tn only
CellRendered(c, n) == c.meter_type = "electric" => c.meter_index <= n

\* the resolve button of flag id is rendered in some row of the table
ResolveOffered(id) ==
  /\ id # 0
  /\ \E i \in 1..Len(history), c \in MeterCells :
       /\ CellRendered(c, eN)
       /\ getReviewFlag(history[i].month, c.meter_type, c.meter_index).id = id

\* ---- the cell highlight
\* notificationHighlight = null
NoNote == [ym |-> EmptyStr, meter_type |-> "", meter_index |-> 0]

\* notificationHighlight && notificationHighlight.ym === h.month &&
\* notificationHighlight.meter_type === type && Number(meter_index || 1) === index
NoteAt(note, month, meterType, meterIndex) ==
  /\ note # NoNote
  /\ note.ym = month
  /\ note.meter_type = meterType
  /\ NumberOr(note.meter_index, 1) = meterIndex

\* missingCold, missingHot, missingE1, missingE2, missingE3; the sewer cell has none
CellMissing(h, c, n) ==
  CASE c.meter_type = "cold" -> h.cold.current = Null
    [] c.meter_type = "hot" -> h.hot.current = Null
    [] c.meter_type = "electric" /\ c.meter_index = 1 -> n >= 1 /\ h.t1.current = Null
    [] c.meter_type = "electric" /\ c.meter_index = 2 -> n >= 2 /\ h.t2.current = Null
    [] c.meter_type = "electric" /\ c.meter_index = 3 ->
         n >= 3 /\ (h.t3.current = Null \/ Lower(h.t3.source) # "ocr")
    [] OTHER -> FALSE

\* nX ? "review" : (fX ? "review" : (missingX ? "missing" : "none"))
highlightMode(noted, f, missing) ==
  IF noted THEN "review"
  ELSE IF f # NoFlag THEN "review"
  ELSE IF missing THEN "missing"
  ELSE "none"

\* MetersTable renders cell c of the row h with the highlight note
RenderCell(c, note) ==
  /\ CellRendered(c, eN)
  /\ cellOut' =
       [ done |-> TRUE, n |-> eN, month |-> row.month,
         meter_type |-> c.meter_type, meter_index |-> c.meter_index,
         missing |-> CellMissing(row, c, eN),
         flag |-> getReviewFlag(row.month, c.meter_type, c.meter_index).id,
         noted |-> NoteAt(note, row.month, c.meter_type, c.meter_index),
         mode |-> highlightMode(NoteAt(note, row.month, c.meter_type, c.meter_index),
                                getReviewFlag(row.month, c.meter_type, c.meter_index),
                                CellMissing(row, c, eN)) ]
  /\ UNCHANGED <<tariffs, apTariffs, selected, row, tariffOut, rowOut, dueOut, ledgerVars, rentVars,
                 billVars, reviewFlags, flagStore, saveOut>>

\* ---- the panel
\* {editOpen && selected && ...}: billLoading ? ... : billErr ? ... : billInfo?.bill ? ...
BillShown == editOpen /\ selected # NoApartment /\ ~billLoading /\ ~billErr /\ billInfo.bill

\* the approve buttons rendered for every bill shown
ApproveOfferedAnyReason == BillShown

\* billInfo.bill?.reason === "pending_admin": the two approve buttons are rendered
ApproveOffered == BillShown /\ billInfo.reason = "pending_admin"

\* the send button rendered for every bill with missing photos
SendWithoutT3OfferedAnyMissing == BillShown /\ billInfo.reason = "missing_photos"

\* reason === "missing_photos" && Array.isArray(missing) && missing.length === 1
\* && missing[0] === "electric_3": the send-without-T3-photo button is rendered
SendWithoutT3Offered ==
  /\ BillShown
  /\ billInfo.reason = "missing_photos"
  /\ Len(billInfo.missing) = 1
  /\ billInfo.missing[1] = "electric_3"

\* ---- the backend
\* GET /review-flags?status=open of an apartment
OpenFlagsOf(store, apartmentId) ==
  SelectSeq(store, LAMBDA f : f.apartment_id = apartmentId /\ f.status = "open")

\* POST /review-flags/{id}/resolve
ResolveFlag(store, id) ==
  [ i \in DOMAIN store |->
      IF store[i].id = id THEN [store[i] EXCEPT !.status = "resolved"] ELSE store[i] ]

\* an open flag on the bill's apartment and month
HasOpenFlag(store, key) ==
  \E i \in 1..Len(store) :
    /\ store[i].apartment_id = key.apartment_id
    /\ store[i].ym = key.ym
    /\ store[i].status = "open"

\* the verdict as computed on demand: an open flag holds an otherwise approvable
\* bill for the admin
Verdict(srv, store, key) ==
  IF srv.reason = "auto_approvable" /\ HasOpenFlag(store, key) THEN "pending_admin" ELSE srv.reason

\* GET /bill: the verdict and the state as they are when the request is served
BillOf(srv, store, key) ==
  [ bill |-> TRUE, apartment_id |-> key.apartment_id, ym |-> key.ym,
    reason |-> Verdict(srv, store, key), missing |-> srv.missing,
    approved |-> srv.approved, sent |-> srv.sent ]

\* approve(send): valid from missing_photos, pending_admin and auto_approvable
ApproveValid(srv) == srv.reason \in {"missing_photos", "pending_admin", "auto_approvable"}

\* an approve that delivers on every call with send
ServerApproveResend(srv, send) ==
  [ srv EXCEPT !.approved = TRUE, !.sent = srv.sent \/ send,
               !.sends = IF send THEN srv.sends + 1 ELSE srv.sends ]

\* approve(send): approved; with send also sent, delivered unless sent already
ServerApprove(srv, send) ==
  [ srv EXCEPT !.approved = TRUE, !.sent = srv.sent \/ send,
               !.sends = IF send /\ ~srv.sent THEN srv.sends + 1 ELSE srv.sends ]

\* sendWithoutT3Photo(): valid only when the sole missing item is the T3 photo
SendWithoutT3Valid(srv) == srv.reason = "missing_photos" /\ srv.missing = MissingE3

\* sendWithoutT3Photo(): directly to sent, delivered unless sent already
ServerSendWithoutT3(srv) ==
  [ srv EXCEPT !.sent = TRUE, !.sends = IF srv.sent THEN srv.sends ELSE srv.sends + 1 ]

PostValid(srv, call) ==
  IF call.kind = "approve" THEN ApproveValid(srv) ELSE SendWithoutT3Valid(srv)

ServerPost(srv, call) ==
  IF call.kind = "approve" THEN ServerApprove(srv, call.send) ELSE ServerSendWithoutT3(srv)

\* GET /history of an apartment: one row, of the bill's month, the cold reading
\* telling the apartments apart
ServerRows(apartmentId) ==
  << [emptyMonthRow(BillMonth) EXCEPT !.cold = Cell(100 * apartmentId, 2, "")] >>

\* GET /tariffs of an apartment: apartment 1 has an override, the others none
ServerOverrides(apartmentId) ==
  IF apartmentId = 1 THEN <<ApartmentTariffItem(Ym(2025, 12), 1)>> ELSE <<>>

\* what follows loadBill in the handler: openEdit ends, the others call loadHistory
AfterLoadBill(call) == IF call.kind = "open" THEN "done" ELSE "history"

\* ---- the handlers
\* what the bill and history handlers leave alone
calcVars == <<tariffs, row, tariffOut, rowOut, dueOut, exportOut, rentVars, cellOut, saveOut>>

\* openEdit(month): setEditMonth(month); setEditOpen(true); setBillInfo(null);
\* setBillErr(null); loadBill(selectedId, month) up to its fetch
OpenEdit(month) ==
  /\ Len(calls) < MaxCalls
  /\ selected # NoApartment
  /\ editMonth' = month
  /\ editOpen' = TRUE
  /\ billInfo' = NoBill
  /\ billErr' = FALSE
  /\ billLoading' = TRUE
  /\ calls' = Append(calls, Call("open", Key(selected.id, month), FALSE, "get", billInfo))
  /\ UNCHANGED <<calcVars, apTariffs, selected, history, reviewFlags, flagStore, server>>

\* the overlay or the close button: setEditOpen(false)
CloseEdit ==
  /\ editOpen
  /\ editOpen' = FALSE
  /\ UNCHANGED <<calcVars, apTariffs, selected, history, reviewFlags, flagStore,
                 billInfo, billLoading, billErr, calls, server, editMonth>>

\* setSelectedId(a.id) and the effect on [selectedId]: loadHistory(selectedId) up
\* to its fetches, loadApartmentTariffs(selectedId) up to its fetch
SelectApartment(a) ==
  /\ Len(calls) < MaxCalls
  /\ a.id # selected.id
  /\ selected' = a
  /\ calls' = Append(calls, [Call("select", Key(a.id, EmptyStr), FALSE, "history", billInfo)
                               EXCEPT !.tariffs = "get"])
  /\ UNCHANGED <<calcVars, apTariffs, history, reviewFlags, flagStore,
                 billInfo, billLoading, billErr, server, editOpen, editMonth>>

\* approveBill(selected.id, editMonth, send) up to its POST /bill/approve
ApproveBill(send) ==
  /\ Len(calls) < MaxCalls
  /\ ApproveOffered
  /\ billErr' = FALSE
  /\ calls' = Append(calls, Call("approve", Key(selected.id, editMonth), send, "post", billInfo))
  /\ UNCHANGED <<calcVars, apTariffs, selected, history, reviewFlags, flagStore,
                 billInfo, billLoading, server, editOpen, editMonth>>

\* sendBillWithoutT3Photo(selected.id, editMonth) up to its POST /bill/send-without-t3-photo
SendBillWithoutT3Photo ==
  /\ Len(calls) < MaxCalls
  /\ SendWithoutT3Offered
  /\ billErr' = FALSE
  /\ calls' = Append(calls, Call("sendT3", Key(selected.id, editMonth), FALSE, "post", billInfo))
  /\ UNCHANGED <<calcVars, apTariffs, selected, history, reviewFlags, flagStore,
                 billInfo, billLoading, server, editOpen, editMonth>>

\* resolveReviewFlag(flagId) up to its POST /review-flags/{id}/resolve
ResolveReviewFlag(flagId) ==
  /\ Len(calls) < MaxCalls
  /\ ResolveOffered(flagId)
  /\ calls' = Append(calls, [Call("resolve", Key(selected.id, EmptyStr), FALSE, "post", billInfo)
                               EXCEPT !.flag = flagId])
  /\ UNCHANGED <<calcVars, apTariffs, selected, history, reviewFlags, flagStore,
                 billInfo, billLoading, billErr, server, editOpen, editMonth>>

\* the backend serves the POST of call i of approveBill / sendBillWithoutT3Photo
ServerHandlesPost(i) ==
  /\ calls[i].pc = "post"
  /\ IsBillPost(calls[i])
  /\ calls[i].key \in DOMAIN server
  /\ PostValid(server[calls[i].key], calls[i])
  /\ server' = [server EXCEPT ![calls[i].key] = ServerPost(server[calls[i].key], calls[i])]
  /\ calls' = [calls EXCEPT ![i].pc = "posted"]
  /\ UNCHANGED <<calcVars, apTariffs, selected, history, reviewFlags, flagStore,
                 billInfo, billLoading, billErr, editOpen, editMonth>>

\* the backend serves the POST of call i of resolveReviewFlag
ServerResolvesFlag(i) ==
  /\ calls[i].pc = "post"
  /\ calls[i].kind = "resolve"
  /\ flagStore' = ResolveFlag(flagStore, calls[i].flag)
  /\ calls' = [calls EXCEPT ![i].pc = "posted"]
  /\ UNCHANGED <<calcVars, apTariffs, selected, history, reviewFlags,
                 billInfo, billLoading, billErr, server, editOpen, editMonth>>

\* a failed POST after which the handler reloads the bill all the same
PostFailsReloads(i) ==
  /\ calls[i].pc = "post"
  /\ IsBillPost(calls[i])
  /\ billErr' = TRUE
  /\ billLoading' = TRUE
  /\ calls' = [calls EXCEPT ![i].pc = "get"]
  /\ UNCHANGED <<calcVars, apTariffs, selected, history, reviewFlags, flagStore,
                 billInfo, server, editOpen, editMonth>>

\* the POST of call i fails (refused, or the write failed): catch (e) { setBillErr(...) }
PostFails(i) ==
  /\ calls[i].pc = "post"
  /\ IsBillPost(calls[i])
  /\ billErr' = TRUE
  /\ calls' = [calls EXCEPT ![i].pc = "failed"]
  /\ UNCHANGED <<calcVars, apTariffs, selected, history, reviewFlags, flagStore,
                 billInfo, billLoading, server, editOpen, editMonth>>

\* the POST of call i of resolveReviewFlag fails: catch (e) { setErr(...) }
ResolveFails(i) ==
  /\ calls[i].pc = "post"
  /\ calls[i].kind = "resolve"
  /\ calls' = [calls EXCEPT ![i].pc = "failed"]
  /\ UNCHANGED <<calcVars, apTariffs, selected, history, reviewFlags, flagStore,
                 billInfo, billLoading, billErr, server, editOpen, editMonth>>

\* the handler of call i resumes after its POST: loadBill(...) up to its fetch
PostReturns(i) ==
  /\ calls[i].pc = "posted"
  /\ IsBillPost(calls[i])
  /\ billLoading' = TRUE
  /\ calls' = [calls EXCEPT ![i].pc = "get"]
  /\ UNCHANGED <<calcVars, apTariffs, selected, history, reviewFlags, flagStore,
                 billInfo, billErr, server, editOpen, editMonth>>

\* a resolveReviewFlag that reloads the bill before the history
ResolveReturnsReloadsBill(i) ==
  /\ calls[i].pc = "posted"
  /\ calls[i].kind = "resolve"
  /\ billLoading' = TRUE
  /\ calls' = [calls EXCEPT ![i].pc = "get", ![i].key = Key(calls[i].key.apartment_id, BillMonth)]
  /\ UNCHANGED <<calcVars, apTariffs, selected, history, reviewFlags, flagStore,
                 billInfo, billErr, server, editOpen, editMonth>>

\* resolveReviewFlag resumes after its POST: loadHistory(selectedId) up to its fetches
ResolveReturns(i) ==
  /\ calls[i].pc = "posted"
  /\ calls[i].kind = "resolve"
  /\ calls' = [calls EXCEPT ![i].pc = "history"]
  /\ UNCHANGED <<calcVars, apTariffs, selected, history, reviewFlags, flagStore,
                 billInfo, billLoading, billErr, server, editOpen, editMonth>>

\* the backend serves the GET /bill of call i
ServerHandlesGet(i) ==
  /\ calls[i].pc = "get"
  /\ calls[i].key \in DOMAIN server
  /\ calls' = [calls EXCEPT ![i].pc = "resp",
                            ![i].data = BillOf(server[calls[i].key], flagStore, calls[i].key)]
  /\ UNCHANGED <<calcVars, apTariffs, selected, history, reviewFlags, flagStore,
                 billInfo, billLoading, billErr, server, editOpen, editMonth>>

\* loadBill of call i after its fetch: setBillInfo(data); setBillErr(null);
\* finally setBillLoading(false)
LoadBillReturns(i) ==
  /\ calls[i].pc = "resp"
  /\ billInfo' = calls[i].data
  /\ billErr' = FALSE
  /\ billLoading' = FALSE
  /\ calls' = [calls EXCEPT ![i].pc = AfterLoadBill(calls[i])]
  /\ UNCHANGED <<calcVars, apTariffs, selected, history, reviewFlags, flagStore,
                 server, editOpen, editMonth>>

\* loadBill of call i, its fetch failing: setBillErr(...); setBillInfo(null);
\* finally setBillLoading(false); the error is not thrown on
LoadBillFails(i) ==
  /\ calls[i].pc \in {"get", "resp"}
  /\ billInfo' = NoBill
  /\ billErr' = TRUE
  /\ billLoading' = FALSE
  /\ calls' = [calls EXCEPT ![i].pc = AfterLoadBill(calls[i])]
  /\ UNCHANGED <<calcVars, apTariffs, selected, history, reviewFlags, flagStore,
                 server, editOpen, editMonth>>

\* the backend serves the two GETs of loadHistory of call i
ServerHandlesHistory(i) ==
  /\ calls[i].pc = "history"
  /\ calls' = [calls EXCEPT ![i].pc = "histresp",
                            ![i].rows = ServerRows(calls[i].key.apartment_id),
                            ![i].flags = OpenFlagsOf(flagStore, calls[i].key.apartment_id)]
  /\ UNCHANGED <<calcVars, apTariffs, selected, history, reviewFlags, flagStore,
                 billInfo, billLoading, billErr, server, editOpen, editMonth>>

\* loadHistory of call i whatever apartment is selected by now
LoadHistoryReturns(i) ==
  /\ calls[i].pc = "histresp"
  /\ history' = calls[i].rows
  /\ reviewFlags' = calls[i].flags
  /\ calls' = [calls EXCEPT ![i].pc = "done"]
  /\ UNCHANGED <<calcVars, apTariffs, selected, flagStore,
                 billInfo, billLoading, billErr, server, editOpen, editMonth>>

\* loadHistory of call i, a fetch failing: setHistory([]); setReviewFlags([]);
\* the error is not thrown on
LoadHistoryFails(i) ==
  /\ calls[i].pc \in {"history", "histresp"}
  /\ history' = <<>>
  /\ reviewFlags' = <<>>
  /\ calls' = [calls EXCEPT ![i].pc = "done"]
  /\ UNCHANGED <<calcVars, apTariffs, selected, flagStore,
                 billInfo, billLoading, billErr, server, editOpen, editMonth>>

\* loadApartmentTariffs of call i after its fetch: setApTariffs(data.items ?? [])
ApartmentTariffsReturn(i) ==
  /\ calls[i].tariffs = "get"
  /\ apTariffs' = ServerOverrides(calls[i].key.apartment_id)
  /\ tariffOut' = NoTariffOut
  /\ calls' = [calls EXCEPT ![i].tariffs = "done"]
  /\ UNCHANGED <<tariffs, row, rowOut, dueOut, exportOut, rentVars, cellOut, saveOut, selected,
                 history, reviewFlags, flagStore,
                 billInfo, billLoading, billErr, server, editOpen, editMonth>>

\* loadApartmentTariffs of call i, its fetch failing: setApTariffs([])
ApartmentTariffsFail(i) ==
  /\ calls[i].tariffs = "get"
  /\ apTariffs' = <<>>
  /\ tariffOut' = NoTariffOut
  /\ calls' = [calls EXCEPT ![i].tariffs = "done"]
  /\ UNCHANGED <<tariffs, row, rowOut, dueOut, exportOut, rentVars, cellOut, saveOut, selected,
                 history, reviewFlags, flagStore,
                 billInfo, billLoading, billErr, server, editOpen, editMonth>>

\* global catalogs of up to MaxTariffs entries, no override
InitGlobal ==
  /\ tariffs \in Catalogs(MaxTariffs)
  /\ apTariffs = <<>>
  /\ selected = NoApartment
  /\ row = NoRow
  /\ InitOuts
  /\ InitNoHistory
  /\ InitNoServerYm
  /\ InitNoBill
  /\ InitNoFlags

NextGlobal ==
  \/ \E month \in QueryMonths \cup {EmptyStr} : ResolveTariff(month)
  \/ LoadTariffsFailed

SpecGlobal == InitGlobal /\ [][NextGlobal]_vars

\* catalogs of at most one entry (of the first variant), for the merge with overrides
BaseCatalogs == { c \in Catalogs(1) : \A i \in 1..Len(c) : c[i] = TariffItem(c[i].ym_from, 1) }

\* override timelines of up to MaxOverrides entries over a catalog of at most one entry
InitSelected ==
  /\ tariffs \in BaseCatalogs
  /\ apTariffs \in Overrides(MaxOverrides)
  /\ selected = NoApartment
  /\ row = NoRow
  /\ InitOuts
  /\ InitNoHistory
  /\ InitNoServerYm
  /\ InitNoBill
  /\ InitNoFlags

NextSelected ==
  \/ \E month \in QueryMonths \cup {EmptyStr} : ResolveTariff(month)
  \/ LoadTariffsFailed
  \/ LoadApartmentTariffsFailed

SpecSelected == InitSelected /\ [][NextSelected]_vars

\* ---------------------------------------------------------------- month rows under computation
RowMonth == Ym(2026, 1)

\* a meter cell as the history gives it: a delta only next to a current reading
Cells(deltas) == { Cell(Null, Null, "") } \cup { Cell(100, d, "") : d \in deltas \cup {Null} }
T3Cells ==
  { Cell(Null, Null, "") } \cup
  { Cell(100, d, src) : d \in {Null, 11}, src \in {"", "manual", "ocr"} }

Rows ==
  { [ month |-> RowMonth,
      cold |-> c, hot |-> h, t1 |-> e1, t2 |-> e2, t3 |-> e3,
      sewer |-> Cell(Null, sd, ""),
      utilities |-> NoUtilities ] :
      c \in Cells({0, 2}), h \in Cells({0, 3}), e1 \in Cells({5}), e2 \in Cells({7}),
      e3 \in T3Cells, sd \in {Null, 0, 4} }

\* the tariff in force for RowMonth: a global entry (old single electric rate plus
\* electric_t1) and an override that replaces the cold rate and the T2 rate
RowCatalog == <<TariffItem(Ym(2025, 11), 2)>>
RowOverrides == <<ApartmentTariffItem(Ym(2025, 12), 1)>>

InitMeters ==
  /\ tariffs = RowCatalog
  /\ apTariffs = RowOverrides
  /\ selected \in { Apartment(ee, NoText, 500, TRUE, NoMode, Null, Null, Null, NoText) : ee \in 1..3 }
  /\ row \in Rows
  /\ InitOuts
  /\ InitNoHistory
  /\ InitNoServerYm
  /\ InitNoBill
  /\ InitNoFlags

NextMeters ==
  \/ MetersTableRow
  \/ MetersTableRowUngated
  \/ LatestRowComputed
  \/ LatestPlanned
  \/ ExportHistoryRow

SpecMeters == InitMeters /\ [][NextMeters]_vars

\* ---------------------------------------------------------------- profiles for the due policy
SinceTexts == { NoText } \cup { IsoDate(ym.y, ym.m, 15) : ym \in EntryMonths }
AnchorTexts == { NoText, YmText(Ym(2025, 12)), YmText(Ym(2026, 1)) }

\* the months asked about: from the month before the first entry month to past two
\* cycles after the anchors
DueMonths == { IndexToYm(FirstIndex + k) : k \in (0 - 1)..(NumMonths + 4) }

Profiles ==
  { Apartment(1, since, 500, TRUE, mode, fixed, amount, cycle, anchor) :
      since \in SinceTexts, mode \in Modes \cup {NoMode}, fixed \in {Null, 0, 3000, 0 - 200},
      amount \in {Null, 900}, cycle \in {Null, 1, 2, 3}, anchor \in AnchorTexts }

Actuals == {Null, 0, 750}

InitDue ==
  /\ tariffs = RowCatalog
  /\ apTariffs = <<>>
  /\ selected \in Profiles \cup {NoApartment}
  /\ row = NoRow
  /\ InitOuts
  /\ InitNoHistory
  /\ InitNoServerYm
  /\ InitNoBill
  /\ InitNoFlags

NextDue ==
  \E ym \in DueMonths \cup {EmptyStr}, actual \in Actuals : PlanUtilities(ym, actual)

SpecDue == InitDue /\ [][NextDue]_vars

\* ================================================================ claims: tariff resolution
RateFields == {"cold", "hot", "sewer", "e1", "e2"}

\* the rates a catalog entry stands for
RatesOfEntry(t) ==
  [ cold |-> t.cold, hot |-> t.hot, sewer |-> t.sewer,
    e1 |-> IF t.electric_t1 # Null THEN t.electric_t1 ELSE t.electric,
    e2 |-> IF t.electric_t2 # Null THEN t.electric_t2 ELSE t.electric ]

RatesOfResult(r) == [f \in RateFields |-> r[f]]

\* entries j and k are neighbours in time: no well-formed entry lies strictly between them
Adjacent(j, k) ==
  \A x \in 1..Len(tariffs) :
    ~(isYm(tariffs[x].ym_from) /\ StrLt(tariffs[j].ym_from, tariffs[x].ym_from)
        /\ StrLt(tariffs[x].ym_from, tariffs[k].ym_from))

\* positions i, j, k hold entries M1 < M2 < M3 and the month asked for is in [M2, M3)
Chain(i, j, k, month) ==
  /\ isYm(tariffs[i].ym_from) /\ isYm(tariffs[j].ym_from) /\ isYm(tariffs[k].ym_from)
  /\ StrLt(tariffs[i].ym_from, tariffs[j].ym_from)
  /\ StrLt(tariffs[j].ym_from, tariffs[k].ym_from)
  /\ Adjacent(j, k)
  /\ StrLe(tariffs[j].ym_from, month) /\ StrLt(month, tariffs[k].ym_from)

\* C1: with entries at months M1 < M2 < M3, in any array order, the resolution of a
\* month in [M2, M3) is exactly M2's rates and reports ym_from = M2.
C1_MonotonicResolution ==
  tariffOut.done =>
    \A i, j, k \in 1..Len(tariffs) :
      Chain(i, j, k, tariffOut.month) =>
        /\ RatesOfResult(tariffOut.base) = RatesOfEntry(tariffs[j])
        /\ tariffOut.base.ym_from = tariffs[j].ym_from

\* a catalog stored out of order (M2 after M3, M1 last), asked for a month strictly inside (M2, M3)
C1_Witness ==
  /\ tariffOut.done
  /\ Len(tariffs) = 3
  /\ Chain(3, 2, 1, tariffOut.month)
  /\ tariffOut.month # tariffs[2].ym_from
  /\ RatesOfResult(tariffOut.base) = RatesOfEntry(tariffs[2])
  /\ RatesOfEntry(tariffs[2]) # RatesOfEntry(tariffs[1])
  /\ RatesOfEntry(tariffs[2]) # RatesOfEntry(tariffs[3])

\* the well-formed entries at or before the month
Applicable(items, month) ==
  { i \in 1..Len(items) : isYm(items[i].key) /\ StrLe(items[i].key, month) }

\* the entry a resolution has to pick: the latest applicable one, else the earliest of all
Chosen(items, month) ==
  IF Applicable(items, month) # {}
  THEN CHOOSE i \in Applicable(items, month) :
         \A j \in Applicable(items, month) : StrLe(items[j].key, items[i].key)
  ELSE CHOOSE i \in 1..Len(items) : \A j \in 1..Len(items) : StrLe(items[i].key, items[j].key)

\* the override values an override entry stands for
ValuesOfOverride(t) ==
  [ cold |-> t.cold, hot |-> t.hot, sewer |-> t.sewer,
    e1 |-> IF t.electric_t1 # Null THEN t.electric_t1 ELSE t.electric,
    e2 |-> IF t.electric_t2 # Null THEN t.electric_t2 ELSE t.electric ]

ExpectedBase(month) ==
  IF ~isYm(month) \/ Len(tariffs) = 0 THEN [f \in RateFields |-> 0]
  ELSE RatesOfEntry(tariffs[Chosen(GlobalKeyed, month)])

ExpectedOverride(month) ==
  IF ~isYm(month) \/ Len(apTariffs) = 0 THEN [f \in RateFields |-> Null]
  ELSE ValuesOfOverride(apTariffs[Chosen(ApKeyed, month)])

\* C2: the result for the selected apartment is, field by field, the override's value
\* where the independently resolved override has one and the independently resolved
\* global value otherwise.
C2_OverrideMerge ==
  tariffOut.done =>
    \A f \in RateFields :
      tariffOut.merged[f] =
        IF ExpectedOverride(tariffOut.month)[f] # Null
        THEN ExpectedOverride(tariffOut.month)[f]
        ELSE ExpectedBase(tariffOut.month)[f]

\* a resolution that takes some fields from the override and others from the catalog
C2_Witness ==
  /\ tariffOut.done
  /\ Len(tariffs) > 0 /\ Len(apTariffs) = 2
  /\ \E f, g \in RateFields :
       /\ ExpectedOverride(tariffOut.month)[f] # Null
       /\ tariffOut.merged[f] = ExpectedOverride(tariffOut.month)[f]
       /\ ExpectedOverride(tariffOut.month)[g] = Null
       /\ tariffOut.merged[g] = ExpectedBase(tariffOut.month)[g]
       /\ tariffOut.merged[g] # 0

\* C3: an override in force at the month (its month at or before the month asked for)
\* wins over the global entry in every field it sets, also when the global entry in
\* force started later than the override.
C3_OverridePrecedence ==
  (tariffOut.done /\ isYm(tariffOut.month) /\ Applicable(ApKeyed, tariffOut.month) # {}) =>
    LET o == apTariffs[Chosen(ApKeyed, tariffOut.month)]
    IN /\ \A f \in RateFields :
            ValuesOfOverride(o)[f] # Null => tariffOut.merged[f] = ValuesOfOverride(o)[f]
       /\ tariffOut.merged.source = "apartment"
       /\ tariffOut.merged.ym_from = ymFromAny(o)

\* the override is older than the global entry in force, and still wins
C3_Witness ==
  /\ tariffOut.done /\ isYm(tariffOut.month)
  /\ Applicable(ApKeyed, tariffOut.month) # {}
  /\ Applicable(GlobalKeyed, tariffOut.month) # {}
  /\ LET o == apTariffs[Chosen(ApKeyed, tariffOut.month)]
         g == tariffs[Chosen(GlobalKeyed, tariffOut.month)]
     IN /\ StrLt(ymFromAny(o), g.ym_from)
        /\ o.cold # Null
        /\ tariffOut.merged.cold = o.cold
        /\ tariffOut.merged.cold # g.cold

\* C4: a month before every entry of a non-empty catalog resolves to the earliest
\* entry's rates (not to zeros).
C4_ResolutionMiss ==
  ( /\ tariffOut.done /\ isYm(tariffOut.month) /\ Len(tariffs) > 0
    /\ \A i \in 1..Len(tariffs) :
         isYm(tariffs[i].ym_from) /\ StrLt(tariffOut.month, tariffs[i].ym_from) ) =>
    \E e \in 1..Len(tariffs) :
      /\ \A i \in 1..Len(tariffs) : StrLe(tariffs[e].ym_from, tariffs[i].ym_from)
      /\ RatesOfResult(tariffOut.base) = RatesOfEntry(tariffs[e])
      /\ tariffOut.base.ym_from = tariffs[e].ym_from
      /\ \A f \in RateFields : tariffOut.base[f] # 0

\* three entries, the earliest stored last, asked for a month before all of them
C4_Witness ==
  /\ tariffOut.done /\ isYm(tariffOut.month)
  /\ Len(tariffs) = 3
  /\ \A i \in 1..3 : isYm(tariffs[i].ym_from) /\ StrLt(tariffOut.month, tariffs[i].ym_from)
  /\ StrLt(tariffs[3].ym_from, tariffs[1].ym_from)
  /\ StrLt(tariffs[3].ym_from, tariffs[2].ym_from)
  /\ RatesOfResult(tariffOut.base) = RatesOfEntry(tariffs[3])
  /\ RatesOfEntry(tariffs[3]) # RatesOfEntry(tariffs[1])

\* ================================================================ claims: meter accrual
\* the number of electric channels the apartment is expected to report
Expected == selected.electric_expected

\* at least one expected channel is missing: cold, hot, T1, T2 when expected >= 2,
\* T3 when expected >= 3; T3 also counts as missing when it is not OCR-sourced
ChannelMissing(h) ==
  \/ h.cold.current = Null
  \/ h.hot.current = Null
  \/ h.t1.current = Null
  \/ (Expected >= 2 /\ h.t2.current = Null)
  \/ (Expected >= 3 /\ (h.t3.current = Null \/ h.t3.source \notin {"ocr", "OCR"}))

\* the rates in force for a month, from the two timelines
ExpectedRates(month) ==
  [ f \in RateFields |->
      IF ExpectedOverride(month)[f] # Null THEN ExpectedOverride(month)[f]
      ELSE ExpectedBase(month)[f] ]

\* the sewer delta that is charged: the recorded one, else cold + hot (a missing
\* delta counted as 0), none when that sum is 0
ChargedSewerDelta(h) ==
  IF h.sewer.delta # Null THEN h.sewer.delta
  ELSE IF OrZero(h.cold.delta) + OrZero(h.hot.delta) = 0 THEN Null
  ELSE OrZero(h.cold.delta) + OrZero(h.hot.delta)

\* delta times rate, none without a delta
Acc(delta, rate) == IF delta = Null THEN Null ELSE delta * rate

ExpectedParts(h) ==
  LET r == ExpectedRates(h.month)
  IN [ cold |-> Acc(h.cold.delta, r.cold),
       hot |-> Acc(h.hot.delta, r.hot),
       sewer |-> Acc(ChargedSewerDelta(h), r.sewer),
       t1 |-> Acc(h.t1.delta, r.e1),
       t2 |-> Acc(h.t2.delta, r.e2) ]

\* the channels that enter the month total
TotalChannels == {"cold", "hot", "sewer", "t1"} \cup (IF Expected >= 2 THEN {"t2"} ELSE {})

NoPart(h) == \A c \in TotalChannels : ExpectedParts(h)[c] = Null

ExpectedTotal(h) ==
  LET p == ExpectedParts(h)
  IN IF NoPart(h) THEN Null
     ELSE OrZero(p.cold) + OrZero(p.hot) + OrZero(p.sewer) + OrZero(p.t1)
          + (IF Expected >= 2 THEN OrZero(p.t2) ELSE 0)

\* C5 as stated: the table total is null exactly when an expected channel is missing.
C5_CompletenessGate_Original ==
  (rowOut.done /\ rowOut.by = "table") =>
    ((rowOut.sum = Null) <=> ChannelMissing(row))

\* C5, amended: the table total is null whenever an expected channel is missing; for
\* a complete month it is null exactly when the row has no delta for any of cold,
\* hot, sewer, T1 and (when expected) T2, so that there is nothing to add up.
C5_CompletenessGate ==
  (rowOut.done /\ rowOut.by = "table") =>
    /\ ChannelMissing(row) => rowOut.sum = Null
    /\ ~ChannelMissing(row) =>
         ((rowOut.sum = Null) <=>
            /\ row.cold.delta = Null /\ row.hot.delta = Null /\ row.sewer.delta = Null
            /\ row.t1.delta = Null
            /\ (Expected >= 2 => row.t2.delta = Null))

\* three channels expected, T3 present but typed in by hand: the total is withheld
C5_Witness ==
  /\ rowOut.done /\ rowOut.by = "table"
  /\ Expected = 3
  /\ row.cold.current # Null /\ row.hot.current # Null
  /\ row.t1.current # Null /\ row.t2.current # Null
  /\ row.t3.current # Null /\ row.t3.source = "manual"
  /\ row.cold.delta # Null /\ row.t1.delta # Null
  /\ rowOut.sum = Null

\* C6: for an incomplete month every place that totals the month yields null: the
\* table total (either version of the table), the summary counters, the export's
\* sum and actual accrual.
C6_NoPartialSums ==
  (rowOut.done /\ ChannelMissing(row)) =>
    /\ rowOut.sum = Null
    /\ rowOut.by = "export" => rowOut.actual = Null

MonthOfDate(text) == Ym(text.toks[1].val, text.toks[2].val)

HasTenantSince == selected.tenant_since # NoText

\* C9: in every billing mode the due amount of a month strictly before the month of
\* tenant_since is 0, whatever the accrual, the fixed fee or the advance amount.
C9_TenancyGuard ==
  ( /\ dueOut.done /\ selected # NoApartment /\ isYm(dueOut.ym)
    /\ HasTenantSince /\ StrLt(dueOut.ym, MonthOfDate(selected.tenant_since)) ) =>
    dueOut.due = 0

\* fixed fee 3000, accrual 750, the month before the tenancy starts: nothing is due
C9_Witness ==
  /\ dueOut.done /\ selected # NoApartment /\ isYm(dueOut.ym)
  /\ HasTenantSince /\ StrLt(dueOut.ym, MonthOfDate(selected.tenant_since))
  /\ selected.utilities_mode = "fixed_monthly"
  /\ selected.utilities_fixed_monthly = 3000
  /\ dueOut.actual = 750
  /\ dueOut.due = 0

\* C10: in fixed_monthly mode, from the month of tenant_since on, the due amount is
\* the fixed fee when it is positive and 0 otherwise, whether or not the month has an accrual.
C10_FixedFee ==
  ( /\ dueOut.done /\ selected # NoApartment /\ isYm(dueOut.ym)
    /\ selected.utilities_mode = "fixed_monthly"
    /\ (HasTenantSince => ~StrLt(dueOut.ym, MonthOfDate(selected.tenant_since))) ) =>
    dueOut.due = IF selected.utilities_fixed_monthly # Null /\ selected.utilities_fixed_monthly > 0
                 THEN selected.utilities_fixed_monthly ELSE 0

\* the meters are incomplete (no accrual) in a month of the tenancy: the fee is still due
C10_Witness ==
  /\ dueOut.done /\ selected # NoApartment /\ isYm(dueOut.ym)
  /\ selected.utilities_mode = "fixed_monthly"
  /\ HasTenantSince /\ ~StrLt(dueOut.ym, MonthOfDate(selected.tenant_since))
  /\ selected.utilities_fixed_monthly = 3000
  /\ dueOut.actual = Null
  /\ dueOut.due = 3000

\* ---------------------------------------------------------------- histories for the export
\* the four kinds of history row: no reading at all; readings with deltas; the same
\* with the accrual and the due recorded by the server; with the carry balance
\* recorded too
RowKinds == 1..4

HistoryRow(month, kind) ==
  [ month |-> month,
    cold |-> IF kind = 1 THEN Cell(Null, Null, "") ELSE Cell(100, 2, ""),
    hot |-> IF kind = 1 THEN Cell(Null, Null, "") ELSE Cell(100, 3, ""),
    t1 |-> IF kind = 1 THEN Cell(Null, Null, "") ELSE Cell(100, 5, ""),
    t2 |-> Cell(Null, Null, ""), t3 |-> Cell(Null, Null, ""),
    sewer |-> Cell(Null, Null, ""),
    utilities |->
      [ actual_accrual |-> IF kind \in {3, 4} THEN 750 ELSE Null,
        planned_due |-> IF kind \in {3, 4} THEN 900 ELSE Null,
        carry_balance |-> IF kind = 4 THEN 40 ELSE Null ] ]

HistoryRowPool ==
  { [key |-> ym, item |-> HistoryRow(ym, kind)] : ym \in EntryMonths, kind \in RowKinds }

\* one row per month, in any order, at most NumMonths - 1 rows
Histories == { Unkey(q) : q \in SeqsOver(HistoryRowPool, NumMonths - 1) }

\* an apartment billed by the accrual and one billed a fixed fee of 3000
LedgerProfiles ==
  { Apartment(1, NoText, 500, TRUE, mode, 3000, Null, Null, NoText) :
      mode \in {NoMode, "fixed_monthly"} }

InitLedger ==
  /\ tariffs = RowCatalog
  /\ apTariffs = RowOverrides
  /\ selected \in LedgerProfiles
  /\ row = NoRow
  /\ InitOuts
  /\ history \in Histories
  /\ InitNoServerYm
  /\ InitNoBill
  /\ InitNoFlags

NextLedger == exportHistoryXlsx

SpecLedger == InitLedger /\ [][NextLedger]_vars

\* ---------------------------------------------------------------- rent
\* tenant_since: none, ISO dates on the 15th of each entry month, on the 31st, on a
\* day "00", and a text that is a month only
RentSinceTexts ==
  SinceTexts \cup { IsoDate(2025, 11, 31), IsoDate(2026, 1, 0), YmText(Ym(2025, 11)) }

\* apartments with the rent unpaid and every rent amount and chat state, and
\* apartments with the rent paid
RentProfiles ==
  { Apartment(1, since, rent, chat, NoMode, Null, Null, Null, NoText) :
      since \in RentSinceTexts, rent \in {Null, 0, 0 - 100, 500}, chat \in BOOLEAN }
  \cup { WithRentPaid(Apartment(1, since, 500, TRUE, NoMode, Null, Null, Null, NoText), TRUE) :
           since \in RentSinceTexts }

\* the instants rent is looked at: the due day, the midnight after it and later
\* that day in 2026-01 and 2026-02 for a due day of 15, of 1 and of 31
NowDays ==
  { Instant(Ym(2026, 1), 15, TRUE), Instant(Ym(2026, 1), 16, FALSE), Instant(Ym(2026, 1), 16, TRUE),
    Instant(Ym(2026, 2), 1, TRUE), Instant(Ym(2026, 2), 2, FALSE), Instant(Ym(2026, 2), 2, TRUE),
    Instant(Ym(2026, 2), 16, TRUE), Instant(Ym(2026, 3), 1, FALSE), Instant(Ym(2026, 3), 1, TRUE) }

ServerMonths == {EmptyStr, Ym(2026, 1), Ym(2026, 2)}

InitRent ==
  /\ tariffs = RowCatalog
  /\ apTariffs = <<>>
  /\ selected \in RentProfiles \cup {NoApartment}
  /\ row = NoRow
  /\ InitOuts
  /\ InitNoHistory
  /\ serverYm \in ServerMonths
  /\ InitNoBill
  /\ InitNoFlags

NextRent ==
  \/ \E ym \in QueryMonths \cup {EmptyStr} : EffectiveRent(ym)
  \/ \E ym \in QueryMonths \cup {EmptyStr}, now \in NowDays : RentDueInfo(ym, now)

SpecRent == InitRent /\ [][NextRent]_vars

\* ---------------------------------------------------------------- bills
\* the verdicts a bill is computed to: approvable as it is, held for the admin,
\* and photos missing: only T3's, only another one, T3's and another one in
\* either order
Verdicts ==
  { [reason |-> "auto_approvable", missing |-> <<>>],
    [reason |-> "pending_admin", missing |-> <<>>],
    [reason |-> "missing_photos", missing |-> MissingE3],
    [reason |-> "missing_photos", missing |-> <<"cold">>],
    [reason |-> "missing_photos", missing |-> <<"electric_3", "cold">>],
    [reason |-> "missing_photos", missing |-> <<"cold", "electric_3">>] }

\* the bill of a verdict, neither approved nor sent
ServerBill(v) ==
  [reason |-> v.reason, missing |-> v.missing, approved |-> FALSE, sent |-> FALSE, sends |-> 0]

\* the flags the server holds on the bill's apartment and month: one on the cold
\* reading, and two, on the cold and the hot reading
FlagStores ==
  { <<ReviewFlagItem(1, 1, BillMonth, "cold", 1, "open")>>,
    <<ReviewFlagItem(1, 1, BillMonth, "cold", 1, "open"),
      ReviewFlagItem(2, 1, BillMonth, "hot", 1, "open")>> }

\* apartment 1 selected and loaded, the edit dialog not opened yet
InitBill ==
  /\ tariffs = RowCatalog
  /\ apTariffs = <<>>
  /\ selected = Apartment(1, NoText, 500, TRUE, NoMode, Null, Null, Null, NoText)
  /\ row = NoRow
  /\ InitOuts
  /\ history = ServerRows(1)
  /\ InitNoServerYm
  /\ billInfo = NoBill
  /\ billLoading = FALSE
  /\ billErr = FALSE
  /\ calls = <<>>
  /\ server \in { [k \in {Key(1, BillMonth)} |-> ServerBill(v)] : v \in Verdicts }
  /\ editOpen = FALSE
  /\ editMonth = EmptyStr
  /\ flagStore \in {<<>>, <<ReviewFlagItem(1, 1, BillMonth, "cold", 1, "open")>>}
  /\ reviewFlags = OpenFlagsOf(flagStore, 1)
  /\ cellOut = NoCellOut
  /\ saveOut = NoSaveOut

NextBill ==
  \/ OpenEdit(BillMonth)
  \/ \E send \in BOOLEAN : ApproveBill(send)
  \/ SendBillWithoutT3Photo
  \/ \E i \in 1..Len(calls) : ServerHandlesPost(i)
  \/ \E i \in 1..Len(calls) : PostFails(i)
  \/ \E i \in 1..Len(calls) : PostReturns(i)
  \/ \E i \in 1..Len(calls) : ServerHandlesGet(i)
  \/ \E i \in 1..Len(calls) : LoadBillReturns(i)
  \/ \E i \in 1..Len(calls) : LoadBillFails(i)
  \/ \E i \in 1..Len(calls) : ServerHandlesHistory(i)
  \/ \E i \in 1..Len(calls) : LoadHistoryReturns(i)
  \/ \E i \in 1..Len(calls) : LoadHistoryFails(i)

SpecBill == InitBill /\ [][NextBill]_vars

\* ---------------------------------------------------------------- flagged cells
\* flags on the cold cell (the type in either spelling) and on T3 of RowMonth, with
\* the index given or left out, open (in either spelling) or resolved, and a flag
\* on the cold cell of another month
FlagPool ==
  { ReviewFlagItem(7, 1, RowMonth, type, index, status) :
      type \in {"cold", "Cold", "electric"}, index \in {Null, 1, 3},
      status \in {"open", "OPEN", "resolved"} }
  \cup { ReviewFlagItem(8, 1, Ym(2025, 12), "cold", 1, "open") }

\* up to two flags in the order the server sent them
FlagLists ==
  {<<>>} \cup { <<f>> : f \in FlagPool } \cup { <<f, g>> : f \in FlagPool, g \in FlagPool }

\* rows of RowMonth: cold present or missing, hot and T1 present, T2 missing, T3
\* missing, typed in, or read by OCR
FlagRows ==
  { [ month |-> RowMonth,
      cold |-> c, hot |-> Cell(100, 3, ""), t1 |-> Cell(100, 5, ""), t2 |-> Cell(Null, Null, ""),
      t3 |-> e3, sewer |-> Cell(Null, Null, ""), utilities |-> NoUtilities ] :
      c \in {Cell(Null, Null, ""), Cell(100, 2, "")},
      e3 \in {Cell(Null, Null, ""), Cell(100, 11, "manual"), Cell(100, 11, "ocr")} }

\* no notification clicked, one for the cold cell, one for T3
Notes ==
  { NoNote,
    [ym |-> RowMonth, meter_type |-> "cold", meter_index |-> 1],
    [ym |-> RowMonth, meter_type |-> "electric", meter_index |-> 3] }

InitFlags ==
  /\ tariffs = RowCatalog
  /\ apTariffs = <<>>
  /\ selected \in { Apartment(ee, NoText, 500, TRUE, NoMode, Null, Null, Null, NoText) : ee \in {2, 3} }
  /\ row \in FlagRows
  /\ InitOuts
  /\ InitNoHistory
  /\ InitNoServerYm
  /\ InitNoBill
  /\ reviewFlags \in FlagLists
  /\ flagStore = <<>>
  /\ cellOut = NoCellOut
  /\ saveOut = NoSaveOut

NextFlags == \E c \in MeterCells, note \in Notes : RenderCell(c, note)

SpecFlags == InitFlags /\ [][NextFlags]_vars

\* ---------------------------------------------------------------- resolving flags
\* a bill approvable as it is and one held for the admin for its amounts
FlagVerdicts == { v \in Verdicts : v.reason \in {"auto_approvable", "pending_admin"} }

\* apartment 1 selected and loaded, with the flags the server holds
InitResolve ==
  /\ tariffs = RowCatalog
  /\ apTariffs = <<>>
  /\ selected = Apartment(1, NoText, 500, TRUE, NoMode, Null, Null, Null, NoText)
  /\ row = NoRow
  /\ InitOuts
  /\ history = ServerRows(1)
  /\ InitNoServerYm
  /\ billInfo = NoBill
  /\ billLoading = FALSE
  /\ billErr = FALSE
  /\ calls = <<>>
  /\ server \in { [k \in {Key(1, BillMonth)} |-> ServerBill(v)] : v \in FlagVerdicts }
  /\ editOpen = FALSE
  /\ editMonth = EmptyStr
  /\ flagStore \in FlagStores
  /\ reviewFlags = OpenFlagsOf(flagStore, 1)
  /\ cellOut = NoCellOut
  /\ saveOut = NoSaveOut

NextResolve ==
  \/ OpenEdit(BillMonth)
  \/ \E id \in 1..2 : ResolveReviewFlag(id)
  \/ \E i \in 1..Len(calls) : ServerResolvesFlag(i)
  \/ \E i \in 1..Len(calls) : ResolveFails(i)
  \/ \E i \in 1..Len(calls) : ResolveReturns(i)
  \/ \E i \in 1..Len(calls) : ServerHandlesGet(i)
  \/ \E i \in 1..Len(calls) : LoadBillReturns(i)
  \/ \E i \in 1..Len(calls) : LoadBillFails(i)
  \/ \E i \in 1..Len(calls) : ServerHandlesHistory(i)
  \/ \E i \in 1..Len(calls) : LoadHistoryReturns(i)
  \/ \E i \in 1..Len(calls) : LoadHistoryFails(i)

SpecResolve == InitResolve /\ [][NextResolve]_vars

\* ================================================================ claims: pay-as-you-go
\* the selected apartment bills by the actual accrual (the default mode)
ByActual == selected.utilities_mode \in {NoMode, "by_actual_monthly"}

\* the month is not before the month of tenant_since
InTenancy(ym) == HasTenantSince => ~StrLt(ym, MonthOfDate(selected.tenant_since))

\* C11: in by_actual_monthly mode, from the month of tenant_since on, the due amount
\* is the month's total accrual (null for an incomplete month), and the planned
\* total of the current month (utilities + rent) is null for an incomplete month.
C11_PayAsYouGo ==
  ( /\ rowOut.done /\ rowOut.by = "planned" /\ ByActual /\ InTenancy(row.month)
    /\ row.utilities.planned_due = Null ) =>
    /\ rowOut.planned = (IF ChannelMissing(row) THEN Null ELSE ExpectedTotal(row))
    /\ ChannelMissing(row) => rowOut.total = Null

\* ================================================================ claims: quarterly advance
\* months since year 0, for the distance between two months
MonthNumber(ym) == ym.y * 12 + ym.m

\* the two months are a whole number of cycles apart, in either direction
CyclesApart(a, b, cycle) ==
  \E k \in 0..40 : MonthNumber(a) - MonthNumber(b) = k * cycle
                     \/ MonthNumber(b) - MonthNumber(a) = k * cycle

\* cycle_months = 3, anchor = 2026-01, a positive advance amount
QuarterlyFrom202601 ==
  /\ dueOut.done /\ selected # NoApartment /\ isYm(dueOut.ym)
  /\ selected.utilities_mode = "quarterly_advance"
  /\ selected.utilities_advance_cycle_months = 3
  /\ selected.utilities_advance_anchor_ym = YmText(Ym(2026, 1))
  /\ selected.utilities_advance_amount # Null /\ selected.utilities_advance_amount > 0

\* C12 as stated: the due is nonzero exactly at the anchor plus a non-negative
\* multiple of the cycle, and zero at every other month, the months before the
\* anchor included.
C12_QuarterlyPeriodicity_Original ==
  QuarterlyFrom202601 =>
    ((dueOut.due # 0) <=>
       /\ ~StrLt(dueOut.ym, Ym(2026, 1))
       /\ CyclesApart(dueOut.ym, Ym(2026, 1), 3))

\* C12, amended: the due is the advance amount exactly at the months of the tenancy
\* that are a whole number of cycles away from the anchor, before it or after it,
\* and zero at every other month.
C12_QuarterlyPeriodicity ==
  QuarterlyFrom202601 =>
    dueOut.due = IF InTenancy(dueOut.ym) /\ CyclesApart(dueOut.ym, Ym(2026, 1), 3)
                 THEN selected.utilities_advance_amount ELSE 0

\* 2025-10, one cycle before the anchor, no tenant_since: the advance is due
C12_Witness ==
  /\ QuarterlyFrom202601
  /\ ~HasTenantSince
  /\ dueOut.ym = Ym(2025, 10)
  /\ dueOut.due = 900

\* the month of a "YYYY-MM" text
MonthOfYmText(text) == Ym(text.toks[1].val, text.toks[2].val)

\* the anchor the claim names: utilities_advance_anchor_ym when set, else the month
\* of tenant_since when set, else the target month
ClaimedAnchor(ym) ==
  IF selected.utilities_advance_anchor_ym # NoText
  THEN MonthOfYmText(selected.utilities_advance_anchor_ym)
  ELSE IF HasTenantSince THEN MonthOfDate(selected.tenant_since)
  ELSE ym

\* the cycle length in force: 3 when none is set, never less than 2
ClaimedCycle ==
  IF selected.utilities_advance_cycle_months \in {Null, 0} THEN 3
  ELSE IF selected.utilities_advance_cycle_months < 2 THEN 2
  ELSE selected.utilities_advance_cycle_months

ClaimedAmount ==
  IF selected.utilities_advance_amount # Null /\ selected.utilities_advance_amount > 0
  THEN selected.utilities_advance_amount ELSE 0

QuarterlyInTenancy ==
  /\ dueOut.done /\ selected # NoApartment /\ isYm(dueOut.ym)
  /\ selected.utilities_mode = "quarterly_advance"
  /\ InTenancy(dueOut.ym)

\* C13: in quarterly_advance mode the cycle is counted from utilities_advance_anchor_ym
\* when set, else from the month of tenant_since when set, else from the target
\* month itself; in the last case every month owes the full advance amount.
C13_QuarterlyAnchorDefault ==
  QuarterlyInTenancy =>
    /\ dueOut.due = IF CyclesApart(dueOut.ym, ClaimedAnchor(dueOut.ym), ClaimedCycle)
                    THEN ClaimedAmount ELSE 0
    /\ (selected.utilities_advance_anchor_ym = NoText /\ ~HasTenantSince) =>
         dueOut.due = ClaimedAmount

\* no anchor, tenancy from 2025-11, cycle 3: 2025-12 owes nothing, 2026-02 would
\* be the next start
C13_Witness ==
  /\ QuarterlyInTenancy
  /\ selected.utilities_advance_anchor_ym = NoText
  /\ HasTenantSince /\ MonthOfDate(selected.tenant_since) = Ym(2025, 11)
  /\ selected.utilities_advance_cycle_months = 3
  /\ selected.utilities_advance_amount = 900
  /\ dueOut.ym = Ym(2025, 12)
  /\ dueOut.due = 0

\* ================================================================ claims: carry balance
\* the export has run over a history of at least one row
Exported == history # <<>> /\ Len(exportOut) = Len(history)

\* the history row of a month
RowOfMonth(month) == CHOOSE h \in { history[i] : i \in 1..Len(history) } : h.month = month

\* the carry balance the history recorded for the n-th exported month, if any
RecordedCarry(n) == RowOfMonth(exportOut[n].month).utilities.carry_balance

\* due - actual of the n-th exported month, a null counted as 0
Drift(n) == OrZero(exportOut[n].planned) - OrZero(exportOut[n].actual)

RECURSIVE DriftUpTo(_)
\* the sum of due - actual over the exported months 1..n
DriftUpTo(n) == IF n = 0 THEN 0 ELSE DriftUpTo(n - 1) + Drift(n)

\* the exported months are the history's months in ascending order
AscendingMonths ==
  /\ \A n \in 1..(Len(exportOut) - 1) : StrLt(exportOut[n].month, exportOut[n + 1].month)
  /\ { exportOut[n].month : n \in 1..Len(exportOut) } = { history[i].month : i \in 1..Len(history) }

\* the latest of the months 1..n with a recorded carry balance, 0 when none has one
LastRecorded(n) ==
  IF \A k \in 1..n : RecordedCarry(k) = Null THEN 0
  ELSE CHOOSE k \in 1..n :
         /\ RecordedCarry(k) # Null
         /\ \A j \in (k + 1)..n : RecordedCarry(j) = Null

\* C14 as stated: the months are taken in ascending order whatever the order of the
\* history rows, and the carry after the n-th month is the sum over the months up
\* to n of due - actual, a null counted as 0.
C14_CarryAdditivity_Original ==
  Exported =>
    /\ AscendingMonths
    /\ \A n \in 1..Len(exportOut) : exportOut[n].carry = DriftUpTo(n)

\* C14, amended: the months are taken in ascending order whatever the order of the
\* history rows; the carry after the n-th month is the carry balance recorded for
\* the latest month up to n that has one (0 when none has) plus the sum of
\* due - actual over the months after that one up to n, a null counted as 0.
C14_CarryAdditivity ==
  Exported =>
    /\ AscendingMonths
    /\ \A n \in 1..Len(exportOut) :
         exportOut[n].carry =
           (IF LastRecorded(n) = 0 THEN 0 ELSE OrZero(RecordedCarry(LastRecorded(n))))
           + DriftUpTo(n) - DriftUpTo(LastRecorded(n))

\* three rows sent newest first, a fixed fee, nothing recorded: the balance after
\* the third month is the sum of the three drifts
C14_Witness ==
  /\ Exported /\ Len(history) = 3
  /\ StrLt(history[2].month, history[1].month) /\ StrLt(history[3].month, history[2].month)
  /\ \A n \in 1..3 : RecordedCarry(n) = Null
  /\ selected.utilities_mode = "fixed_monthly"
  /\ Drift(1) # 0 /\ Drift(2) # 0 /\ Drift(3) # 0
  /\ exportOut[3].carry = Drift(1) + Drift(2) + Drift(3)

RentAsked == rentOut.done /\ rentOut.by = "rent" /\ selected # NoApartment /\ isYm(rentOut.ym)

\* C16: effectiveRentForMonth is 0 for every month strictly before the month of
\* tenant_since; for a month at or after it, it is rent_monthly exactly when
\* rent_monthly > 0 and has_active_chat is true, and 0 otherwise.
C16_RentGuard ==
  RentAsked =>
    rentOut.rent =
      IF /\ selected.rent_monthly # Null /\ selected.rent_monthly > 0
         /\ selected.has_active_chat
         /\ InTenancy(rentOut.ym)
      THEN selected.rent_monthly ELSE 0

\* rent 500, an active chat, the month before the tenancy begins: no rent
C16_Witness ==
  /\ RentAsked
  /\ selected.rent_monthly = 500 /\ selected.has_active_chat
  /\ HasTenantSince /\ StrLt(rentOut.ym, MonthOfDate(selected.tenant_since))
  /\ rentOut.rent = 0

\* the number of days of a month of the calendar
CalendarDays(ym) ==
  IF ym.m \in {4, 6, 9, 11} THEN 30
  ELSE IF ym.m # 2 THEN 31
  ELSE IF (ym.y % 4 = 0 /\ ym.y % 100 # 0) \/ ym.y % 400 = 0 THEN 29 ELSE 28

\* the due date of a month: the day of month of tenant_since (at least 1), clamped
\* to the month's length
ClaimedDueDay(ym) ==
  Min(Max(1, selected.tenant_since.toks[3].val), CalendarDays(ym))

\* the calendar day after the due date
DayAfterDue(ym) ==
  IF ClaimedDueDay(ym) < CalendarDays(ym) THEN [ym |-> ym, d |-> ClaimedDueDay(ym) + 1]
  ELSE [ym |-> IndexToYm(ymToIndex(ym) + 1), d |-> 1]

\* the instant is later than the due date plus one day
LaterThanGrace(now, ym) ==
  \/ StrLt(DayAfterDue(ym).ym, now.ym)
  \/ (now.ym = DayAfterDue(ym).ym /\ now.d > DayAfterDue(ym).d)
  \/ (now.ym = DayAfterDue(ym).ym /\ now.d = DayAfterDue(ym).d /\ now.late)

DueAsked == rentOut.done /\ rentOut.by = "due"

\* C17: overdue is reported only when the rent is unpaid, the current time is later
\* than the due date plus one day and the month is the server's current month; for
\* every other month it is false at any time.
C17_Overdue ==
  DueAsked =>
    /\ rentOut.overdue =>
         /\ selected # NoApartment /\ isYm(rentOut.ym)
         /\ ~selected.statuses.rent_paid
         /\ rentOut.ym = serverYm
         /\ LaterThanGrace(rentOut.now, rentOut.ym)
    /\ rentOut.ym # serverYm => ~rentOut.overdue
    /\ ( /\ selected # NoApartment /\ isYm(rentOut.ym) /\ IsIsoDate(selected.tenant_since)
         /\ ~selected.statuses.rent_paid /\ rentOut.ym = serverYm
         /\ LaterThanGrace(rentOut.now, rentOut.ym) ) => rentOut.overdue

\* due on the 31st, February 2026 the server's month, rent unpaid, 1 March during
\* the day: the due date was 28 February and the rent is overdue
C17_Witness ==
  /\ DueAsked /\ selected # NoApartment
  /\ selected.tenant_since = IsoDate(2025, 11, 31)
  /\ ~selected.statuses.rent_paid
  /\ serverYm = Ym(2026, 2) /\ rentOut.ym = Ym(2026, 2)
  /\ rentOut.now = Instant(Ym(2026, 3), 1, TRUE)
  /\ rentOut.overdue

\* ================================================================ claims: bill approval
\* the backend has served the POST of call i
Served(i) == calls[i].pc \notin {"post", "failed"}

\* the bill the server holds for the (apartment, month) call i names
BillAt(i) == server[calls[i].key]

ApproveCalls == { i \in 1..Len(calls) : calls[i].kind = "approve" }

SendT3Calls == { i \in 1..Len(calls) : calls[i].kind = "sendT3" }

\* every approve(send) served has moved the bill to approved, and to sent when send
ApproveMoves ==
  \A i \in ApproveCalls : Served(i) => BillAt(i).approved /\ (calls[i].send => BillAt(i).sent)

\* C18 as stated: approve(send) can be taken from each of the verdicts
\* missing_photos, pending_admin and auto_approvable; it moves the bill to
\* approved, and additionally to sent when send is true.
C18_ApproveTransition_Original ==
  /\ ( BillShown /\ billInfo.reason \in {"missing_photos", "pending_admin", "auto_approvable"} )
       => ApproveOffered
  /\ ApproveMoves

\* C18: approve(send) is offered exactly for a bill shown with the verdict
\* pending_admin, so every approve was started from that verdict; once served it
\* has moved the bill to approved, and additionally to sent when send is true.
C18_ApproveTransition ==
  /\ ApproveOffered <=> (BillShown /\ billInfo.reason = "pending_admin")
  /\ \A i \in ApproveCalls : calls[i].shown.bill /\ calls[i].shown.reason = "pending_admin"
  /\ ApproveMoves

\* an approve with send and one without, both served, from pending_admin
C18_Witness ==
  /\ \E i \in ApproveCalls : calls[i].send /\ Served(i)
  /\ \E i \in ApproveCalls : ~calls[i].send /\ Served(i)
  /\ \E k \in DOMAIN server :
       server[k].reason = "pending_admin" /\ server[k].approved /\ server[k].sent

\* the approve(send = true) calls the backend has served
SendsServed == { i \in ApproveCalls : calls[i].send /\ Served(i) }

\* C19: approve(send = true) called twice for the same (apartment, month), in any
\* interleaving of the two requests and their reloads, results in exactly one
\* send: the bill is never delivered twice, and it has been delivered once as
\* soon as one approve(send = true) was served.
C19_IdempotentApproval ==
  /\ \A k \in DOMAIN server : server[k].sends <= 1
  /\ \A i \in SendsServed : BillAt(i).sends = 1 /\ BillAt(i).sent /\ BillAt(i).approved

\* two approve(send = true) served, the second one started from a bill shown as sent
C19_Witness ==
  /\ Cardinality(SendsServed) = 2
  /\ \E i \in SendsServed : calls[i].shown.sent
  /\ \A i \in SendsServed : BillAt(i).sends = 1 /\ calls[i].key = Key(1, BillMonth)

\* C20: sendWithoutT3Photo is offered only for a bill shown with the reason
\* missing_photos and the missing list exactly [electric_3], not with any other
\* or any additional missing item; once served it has moved the bill to sent.
C20_SendWithoutT3 ==
  /\ SendWithoutT3Offered <=>
       (BillShown /\ billInfo.reason = "missing_photos" /\ billInfo.missing = MissingE3)
  /\ \A i \in SendT3Calls :
       /\ calls[i].shown.reason = "missing_photos"
       /\ calls[i].shown.missing = MissingE3
       /\ Served(i) => BillAt(i).sent /\ BillAt(i).sends = 1

\* a send without the T3 photo served and reloaded: the bill is shown as sent
C20_Witness ==
  /\ \E i \in SendT3Calls : calls[i].pc = "done"
  /\ BillShown /\ billInfo.sent /\ ~billInfo.approved /\ billInfo.missing = MissingE3

\* ================================================================ claims: failed approval
\* the step is call i of approveBill / sendBillWithoutT3Photo leaving its POST
PostLeft(i) == calls[i].pc = "post" /\ calls'[i].pc # "post"

\* the step is the failure of the POST of call i
PostFailed(i) == calls[i].pc = "post" /\ calls'[i].pc = "failed"

\* what a failed POST does to the client: billInfo as it was, no reload started,
\* the error set
FailedPostStep(i) ==
  /\ billInfo' = billInfo
  /\ billLoading' = billLoading
  /\ billErr'

\* C21: when the POST of approveBill or sendBillWithoutT3Photo fails, billInfo
\* (reason, approved_at, sent_at) is left as it was, no reload is started then or
\* later by that call, and only the error is set; a POST that does not fail is
\* one the backend has served.
C21_FailedApproval ==
  [][ \A i \in { j \in 1..Len(calls) : IsBillPost(calls[j]) } :
        /\ PostLeft(i) => (PostFailed(i) \/ calls'[i].pc = "posted")
        /\ PostFailed(i) => FailedPostStep(i)
        /\ calls[i].pc = "failed" => calls'[i].pc = "failed" ]_vars

\* an approve with send failed while the bill was shown not approved, not sent:
\* the client still holds that bill, only the error is shown
C21_Witness ==
  /\ \E i \in 1..Len(calls) : calls[i].kind = "approve" /\ calls[i].send /\ calls[i].pc = "failed"
  /\ billErr /\ ~billLoading
  /\ billInfo.bill /\ billInfo.reason = "pending_admin" /\ ~billInfo.approved /\ ~billInfo.sent
  /\ \A k \in DOMAIN server : ~server[k].approved /\ ~server[k].sent

\* ================================================================ claims: resolving a flag
\* the step belongs to call i
StepOf(i) == calls'[i] # calls[i]

\* the step ends the loadHistory of call i
HistoryEnds(i) == calls[i].pc \in {"history", "histresp"} /\ calls'[i].pc = "done"

\* the step is one of loadBill: openEdit resetting the bill, or a GET /bill ending
LoadBillStep ==
  \/ Len(calls') = Len(calls) + 1 /\ calls'[Len(calls')].kind = "open"
  \/ \E i \in 1..Len(calls) : calls[i].pc \in {"get", "resp"} /\ calls'[i].pc \notin {"get", "resp"}

\* flag id is among the flags the client highlights
Highlighted(flags, id) ==
  \E j \in 1..Len(flags) : flags[j].id = id /\ toLowerCase(flags[j].status) = "open"

\* C22: no step of resolveReviewFlag changes the bill the client holds (billInfo,
\* billLoading, billErr); when its reload of the history ends, the resolved flag
\* is no longer among the highlighted flags; and billInfo changes only in a step
\* of loadBill.
C22_ResolveKeepsBill ==
  [][ /\ \A i \in { j \in 1..Len(calls) : calls[j].kind = "resolve" } :
           /\ StepOf(i) => billInfo' = billInfo /\ billLoading' = billLoading /\ billErr' = billErr
           /\ HistoryEnds(i) => ~Highlighted(reviewFlags', calls[i].flag)
      /\ (Len(calls') = Len(calls) + 1 /\ calls'[Len(calls')].kind = "resolve")
           => billInfo' = billInfo /\ billLoading' = billLoading /\ billErr' = billErr
      /\ billInfo' # billInfo => LoadBillStep ]_vars

\* the only flag was resolved and the history reloaded: no flag is highlighted, the
\* server would now compute auto_approvable, the dialog still shows pending_admin
C22_Witness ==
  /\ \E i \in 1..Len(calls) : calls[i].kind = "resolve" /\ calls[i].pc = "done"
  /\ reviewFlags = <<>> /\ history # <<>>
  /\ BillShown /\ billInfo.reason = "pending_admin"
  /\ Verdict(server[Key(1, BillMonth)], flagStore, Key(1, BillMonth)) = "auto_approvable"

\* ================================================================ claims: review highlight
\* the spellings of a meter type
SameType(a, b) ==
  \/ a = b
  \/ {a, b} = {"cold", "Cold"}

\* the cell rendered has a flag whose status is open (in either spelling): same
\* month, same type, same index (a flag without an index is one of index 1)
HasOpenFlagAt(month, meterType, meterIndex) ==
  \E j \in 1..Len(reviewFlags) :
    /\ reviewFlags[j].ym = month
    /\ SameType(reviewFlags[j].meter_type, meterType)
    /\ (IF reviewFlags[j].meter_index \in {Null, 0} THEN 1 ELSE reviewFlags[j].meter_index) = meterIndex
    /\ reviewFlags[j].status \in {"open", "OPEN"}

CellHasOpenFlag == HasOpenFlagAt(cellOut.month, cellOut.meter_type, cellOut.meter_index)

\* C23: a rendered cell with an open flag is in the review state whether its value
\* is present or missing; a cell is in the review state only with an open flag or
\* as the cell of the clicked notification, so a flag that is not open never puts
\* it there; and the missing state is shown only for a cell with no open flag (and
\* a missing value).
C23_ReviewHighlight ==
  cellOut.done =>
    /\ CellHasOpenFlag => cellOut.mode = "review"
    /\ cellOut.mode = "review" => (CellHasOpenFlag \/ cellOut.noted)
    /\ cellOut.mode = "missing" => (~CellHasOpenFlag /\ cellOut.missing)
    /\ (cellOut.flag # 0) <=> CellHasOpenFlag

\* the T3 cell, its value missing, with a resolved flag listed before an open one:
\* shown in the review state for the open flag
C23_Witness ==
  /\ cellOut.done /\ cellOut.meter_type = "electric" /\ cellOut.meter_index = 3
  /\ cellOut.missing /\ ~cellOut.noted /\ cellOut.mode = "review"
  /\ Len(reviewFlags) = 2 /\ reviewFlags[1].status = "resolved" /\ reviewFlags[2].status = "OPEN"
  /\ reviewFlags[1].meter_type = "electric" /\ reviewFlags[1].meter_index = 3

\* ---------------------------------------------------------------- save forms
\* Number(...) of a text that is not a number, and of one too large for a double
NaN == -2
Infinity == -3

\* what the operator types into a numeric field
FormTexts == {"", "7", " 7 ", "7,0", "7,0,0", "abc", "1e999"}
\* the other fields are left empty, filled, or mistyped
OtherTexts == {"", "7", "abc"}

\* s.trim()
trim(s) == CASE s = " 7 " -> "7" [] OTHER -> s

\* t.replace(",", "."): the first comma only
replaceComma(t) == CASE t = "7,0" -> "7.0" [] t = "7,0,0" -> "7.0,0" [] OTHER -> t

\* Number(t)
Number(t) ==
  CASE t = "" -> 0
    [] t = "7" -> 7
    [] t = "7.0" -> 7
    [] t = "1e999" -> Infinity
    [] OTHER -> NaN

isFinite(v) == v # NaN /\ v # Infinity

numOrNull(s) ==
  IF trim(s) = "" THEN Null
  ELSE IF ~isFinite(Number(replaceComma(trim(s)))) THEN Null
  ELSE Number(replaceComma(trim(s)))

numOrZero(s) ==
  IF trim(s) = "" THEN 0
  ELSE IF ~isFinite(Number(replaceComma(trim(s)))) THEN 0
  ELSE Number(replaceComma(trim(s)))

\* MetersTable: "empty => zero"
parseInlineNumber(s) ==
  IF trim(s) = "" THEN 0
  ELSE IF ~isFinite(Number(replaceComma(trim(s)))) THEN Null
  ELSE Number(replaceComma(trim(s)))

\* App renders MetersTable without the onInlineSave prop
onInlineSave == FALSE

\* what the operator types into a month field: nothing, 2026-03, or 13-2026
BadMonthText == [toks |-> <<[len |-> 2, val |-> 13], [len |-> 4, val |-> 2026]>>, dash |-> TRUE]
FormMonths == {NoText, YmText(Ym(2026, 3)), BadMonthText}

FormFields(cold, hot, sewer, e1, e2, e3) ==
  [cold |-> cold, hot |-> hot, sewer |-> sewer, e1 |-> e1, e2 |-> e2, e3 |-> e3]

\* a ?? b on months
OrElse(a, b) == IF a = NullStr THEN b ELSE a

\* saveTariff up to its POST: every numeric field goes through numOrZero
saveTariff(month, f) ==
  /\ saveOut' =
       IF normalizeYmAny(month) = NullStr
       THEN [ done |-> TRUE, form |-> "tariff", month |-> month, fields |-> f,
              sent |-> FALSE, err |-> TRUE, payload |-> NoPayload ]
       ELSE [ done |-> TRUE, form |-> "tariff", month |-> month, fields |-> f,
              sent |-> TRUE, err |-> FALSE,
              payload |->
                [ NoPayload EXCEPT
                    !.ym = normalizeYmAny(month),
                    !.cold = numOrZero(f.cold),
                    !.hot = numOrZero(f.hot),
                    !.sewer = numOrZero(f.sewer),
                    !.electric = numOrZero(f.e1),
                    !.electric_t1 = numOrZero(f.e1),
                    !.electric_t2 = numOrZero(f.e2) ] ]
  /\ UNCHANGED <<tariffs, apTariffs, selected, row, tariffOut, rowOut, dueOut, ledgerVars, rentVars,
                 billVars, reviewFlags, flagStore, cellOut>>

\* saveApartmentTariff up to its POST: a field that numOrNull rejects is left out
saveApartmentTariff(month, f) ==
  /\ selected # NoApartment
  /\ saveOut' =
       IF OrElse(normalizeYmAny(month), normalizeYmAny(YmText(serverYm))) = NullStr
       THEN [ done |-> TRUE, form |-> "apartment", month |-> month, fields |-> f,
              sent |-> FALSE, err |-> TRUE, payload |-> NoPayload ]
       ELSE [ done |-> TRUE, form |-> "apartment", month |-> month, fields |-> f,
              sent |-> TRUE, err |-> FALSE,
              payload |->
                [ NoPayload EXCEPT
                    !.ym = OrElse(normalizeYmAny(month), normalizeYmAny(YmText(serverYm))),
                    !.cold = numOrNull(f.cold),
                    !.hot = numOrNull(f.hot),
                    !.sewer = numOrNull(f.sewer),
                    !.electric_t1 = numOrNull(f.e1),
                    !.electric_t2 = numOrNull(f.e2) ] ]
  /\ UNCHANGED <<tariffs, apTariffs, selected, row, tariffOut, rowOut, dueOut, ledgerVars, rentVars,
                 billVars, reviewFlags, flagStore, cellOut>>

\* historyWithFuture.find((h) => h.month === editMonth)?.meters, nothing found read as nulls
EditRow(month) ==
  IF \E i \in 1..Len(history) : history[i].month = month
  THEN history[CHOOSE i \in 1..Len(history) : history[i].month = month]
  ELSE emptyMonthRow(month)

\* nearlyEq(a, b)
nearlyEq(a, b) == a = b

\* the field as saveEdit puts it into the payload, Null when it leaves it out
EditField(s, cur) ==
  IF numOrNull(s) # Null /\ ~nearlyEq(numOrNull(s), cur) THEN numOrNull(s) ELSE Null

EditPayload(f, cur) ==
  [ NoPayload EXCEPT
      !.ym = editMonth,
      !.cold = EditField(f.cold, cur.cold.current),
      !.hot = EditField(f.hot, cur.hot.current),
      !.electric_t1 = EditField(f.e1, cur.t1.current),
      !.electric_t2 = EditField(f.e2, cur.t2.current),
      !.electric_t3 = EditField(f.e3, cur.t3.current) ]

\* Object.keys(payload).length <= 1
NothingToSave(p) ==
  /\ p.cold = Null /\ p.hot = Null
  /\ p.electric_t1 = Null /\ p.electric_t2 = Null /\ p.electric_t3 = Null

\* saveEdit up to its POST
saveEdit(f) ==
  /\ editOpen
  /\ selected # NoApartment
  /\ saveOut' =
       IF NothingToSave(EditPayload(f, EditRow(editMonth)))
       THEN [ done |-> TRUE, form |-> "edit", month |-> YmText(editMonth), fields |-> f,
              sent |-> FALSE, err |-> TRUE, payload |-> NoPayload ]
       ELSE [ done |-> TRUE, form |-> "edit", month |-> YmText(editMonth), fields |-> f,
              sent |-> TRUE, err |-> FALSE, payload |-> EditPayload(f, EditRow(editMonth)) ]
  /\ UNCHANGED <<tariffs, apTariffs, selected, row, tariffOut, rowOut, dueOut, ledgerVars, rentVars,
                 billVars, reviewFlags, flagStore, cellOut>>

\* commitInline(month, "cold", 1) with inlineValue = s
commitInline(month, s) ==
  /\ saveOut' =
       IF ~onInlineSave \/ parseInlineNumber(s) = Null
       THEN [ done |-> TRUE, form |-> "inline", month |-> YmText(month),
              fields |-> FormFields(s, "", "", "", "", ""),
              sent |-> FALSE, err |-> FALSE, payload |-> NoPayload ]
       ELSE [ done |-> TRUE, form |-> "inline", month |-> YmText(month),
              fields |-> FormFields(s, "", "", "", "", ""),
              sent |-> TRUE, err |-> FALSE,
              payload |-> [NoPayload EXCEPT !.ym = month, !.cold = parseInlineNumber(s)] ]
  /\ UNCHANGED <<tariffs, apTariffs, selected, row, tariffOut, rowOut, dueOut, ledgerVars, rentVars,
                 billVars, reviewFlags, flagStore, cellOut>>

\* the cold field takes every text, the others one text in common
Fills == { FormFields(cold, o, o, o, o, o) : cold \in FormTexts, o \in OtherTexts }

\* the month's row on the server holds a cold reading of 7
FormRows == << [emptyMonthRow(BillMonth) EXCEPT !.cold = Cell(7, 2, "")] >>

InitForms ==
  /\ tariffs = RowCatalog
  /\ apTariffs = <<>>
  /\ selected = Apartment(1, NoText, 500, TRUE, NoMode, Null, Null, Null, NoText)
  /\ row = NoRow
  /\ InitOuts
  /\ history = FormRows
  /\ serverYm \in {EmptyStr, Ym(2026, 5)}
  /\ billInfo = NoBill
  /\ billLoading = FALSE
  /\ billErr = FALSE
  /\ calls = <<>>
  /\ server = [k \in {Key(1, BillMonth)} |-> ServerBill([reason |-> "pending_admin", missing |-> <<>>])]
  /\ editOpen = FALSE
  /\ editMonth = EmptyStr
  /\ InitNoFlags

NextForms ==
  \/ calls = <<>> /\ OpenEdit(BillMonth)
  \/ \E i \in 1..Len(calls) : ServerHandlesGet(i)
  \/ \E i \in 1..Len(calls) : LoadBillReturns(i)
  \/ \E i \in 1..Len(calls) : LoadBillFails(i)
  \/ \E month \in FormMonths, f \in Fills : saveTariff(month, f)
  \/ \E month \in FormMonths, f \in Fills : saveApartmentTariff(month, f)
  \/ \E f \in Fills : saveEdit(f)
  \/ \E s \in FormTexts : commitInline(BillMonth, s)

SpecForms == InitForms /\ [][NextForms]_vars

\* ---------------------------------------------------------------- C24
\* the texts of FormTexts that are not a number
MalformedTexts == {"7,0,0", "abc", "1e999"}

\* the payload field a form field is sent as
SentAs(p, name) ==
  CASE name = "cold" -> p.cold
    [] name = "hot" -> p.hot
    [] name = "sewer" -> p.sewer
    [] name = "e1" -> p.electric_t1
    [] name = "e2" -> p.electric_t2
    [] name = "e3" -> p.electric_t3

FieldNames == {"cold", "hot", "sewer", "e1", "e2", "e3"}

\* C24: a malformed numeric or month input of an operator form is treated as a field
\* that is not set: whenever a save handler sends a request, every field whose text is
\* malformed is absent from the payload (never a value, never 0), and a malformed month
\* text contributes no month of its own.
C24_ParseFailure ==
  (saveOut.done /\ saveOut.sent) =>
    /\ \A name \in FieldNames :
         saveOut.fields[name] \in MalformedTexts => SentAs(saveOut.payload, name) = Null
    /\ saveOut.month = BadMonthText => saveOut.payload.ym = serverYm

\* ---------------------------------------------------------------- timelines for the audit line
\* an override that sets the rent and no utility rate
RentOverride(ym) ==
  [ ym_from |-> ym, month_from |-> NullStr,
    cold |-> Null, hot |-> Null, sewer |-> Null,
    electric |-> Null, electric_t1 |-> Null, electric_t2 |-> Null, electric_t3 |-> Null,
    rent |-> 1500 ]

AuditPool ==
  { ApartmentTariffItem(ym, 2) : ym \in EntryMonths } \cup { RentOverride(ym) : ym \in EntryMonths }

\* at most two overrides, of different months
AuditTimelines ==
  { <<>> } \cup { <<a>> : a \in AuditPool }
    \cup { <<p[1], p[2]>> : p \in { q \in AuditPool \X AuditPool : ymFromAny(q[1]) # ymFromAny(q[2]) } }

\* every entry carries a month
InitAudit ==
  /\ tariffs \in { c \in BaseCatalogs : \A i \in 1..Len(c) : isYm(c[i].ym_from) }
  /\ apTariffs \in AuditTimelines
  /\ selected = NoApartment
  /\ row = NoRow
  /\ InitOuts
  /\ InitNoHistory
  /\ InitNoServerYm
  /\ InitNoBill
  /\ InitNoFlags

NextAudit ==
  \/ \E month \in QueryMonths \cup {EmptyStr} : ResolveTariff(month)
  \/ LoadTariffsFailed
  \/ LoadApartmentTariffsFailed

SpecAudit == InitAudit /\ [][NextAudit]_vars

\* ---------------------------------------------------------------- C25
\* some rate of the result is the one the override entry o sets
AppliedFromOverride(o) ==
  \E f \in RateFields :
    ValuesOfOverride(o)[f] # Null /\ tariffOut.merged[f] = ValuesOfOverride(o)[f]

\* C25: the result reports a source of apartment, global or none, and the month it
\* reports (ym_from) is the month of the entry whose rates were applied: with source
\* apartment an override entry of that month that supplied a rate, with source global
\* the catalog entry of that month that supplied every rate, with source none no
\* entry at all.
C25_ResolutionAudit ==
  tariffOut.done =>
    /\ tariffOut.merged.source \in {"apartment", "global", "none"}
    /\ tariffOut.merged.source = "apartment" =>
         \E i \in 1..Len(apTariffs) :
           /\ ymFromAny(apTariffs[i]) = tariffOut.merged.ym_from
           /\ AppliedFromOverride(apTariffs[i])
    /\ tariffOut.merged.source = "global" =>
         \E i \in 1..Len(tariffs) :
           /\ tariffs[i].ym_from = tariffOut.merged.ym_from
           /\ RatesOfResult(tariffOut.merged) = RatesOfEntry(tariffs[i])
    /\ tariffOut.merged.source = "none" =>
         /\ tariffOut.merged.ym_from = NullStr
         /\ \A f \in RateFields : tariffOut.merged[f] = 0

\* ---------------------------------------------------------------- entries of the old and the new format
\* one catalog entry and one override of any variant
InitLegacy ==
  /\ tariffs \in Catalogs(1)
  /\ apTariffs \in Overrides(1)
  /\ selected = NoApartment
  /\ row = NoRow
  /\ InitOuts
  /\ InitNoHistory
  /\ InitNoServerYm
  /\ InitNoBill
  /\ InitNoFlags

NextLegacy ==
  \/ \E month \in QueryMonths \cup {EmptyStr} : ResolveTariff(month)
  \/ LoadTariffsFailed
  \/ LoadApartmentTariffsFailed

SpecLegacy == InitLegacy /\ [][NextLegacy]_vars

\* ---------------------------------------------------------------- C26
\* the tier rate an entry stands for: its tier field when it has one, else its single rate
TierRate(tier, legacy) == IF tier # Null THEN tier ELSE legacy

\* a resolution that resolved to the catalog's entry / to the override
GlobalResolved == tariffOut.done /\ isYm(tariffOut.month) /\ Len(tariffs) = 1
OverrideResolved == tariffOut.done /\ isYm(tariffOut.month) /\ Len(apTariffs) = 1

\* C26: in a resolved entry, of the catalog or of the overrides, the T1 and the T2 rate
\* are the tier field when the entry has it and the entry's single electricity rate
\* when it has not.
C26_LegacyElectricRate ==
  /\ GlobalResolved =>
       /\ tariffOut.base.e1 = TierRate(tariffs[1].electric_t1, tariffs[1].electric)
       /\ tariffOut.base.e2 = TierRate(tariffs[1].electric_t2, tariffs[1].electric)
  /\ OverrideResolved =>
       /\ tariffOut.ov.e1 = TierRate(apTariffs[1].electric_t1, apTariffs[1].electric)
       /\ tariffOut.ov.e2 = TierRate(apTariffs[1].electric_t2, apTariffs[1].electric)

\* a catalog entry with a T2 rate and no T1 rate next to an override of the old format
C26_Witness ==
  /\ GlobalResolved /\ OverrideResolved
  /\ tariffs[1].electric_t1 = Null /\ tariffs[1].electric_t2 # Null
  /\ tariffOut.base.e1 = tariffs[1].electric
  /\ tariffOut.base.e2 = tariffs[1].electric_t2
  /\ tariffOut.base.e1 # tariffOut.base.e2
  /\ apTariffs[1].electric_t1 = Null /\ apTariffs[1].electric_t2 = Null
  /\ apTariffs[1].electric # Null
  /\ tariffOut.ov.e1 = apTariffs[1].electric /\ tariffOut.ov.e2 = apTariffs[1].electric

\* ---------------------------------------------------------------- C27
\* the month asked for is before every entry of a non-empty override timeline
BeforeEveryOverride ==
  /\ tariffOut.done /\ isYm(tariffOut.month) /\ Len(apTariffs) > 0
  /\ \A i \in 1..Len(apTariffs) :
       isYm(ymFromAny(apTariffs[i])) /\ StrLt(tariffOut.month, ymFromAny(apTariffs[i]))

\* entry e is the earliest of the override timeline
EarliestOverride(e) ==
  \A i \in 1..Len(apTariffs) : StrLe(ymFromAny(apTariffs[e]), ymFromAny(apTariffs[i]))

\* C27: for a month before every entry of a non-empty override timeline the override
\* resolution still returns the earliest entry: its non-null fields replace the global
\* rates, the others are inherited, and the source is reported as apartment with the
\* earliest entry's month, although no override is in force at the month.
C27_OverrideBackward ==
  BeforeEveryOverride =>
    \E e \in 1..Len(apTariffs) :
      /\ EarliestOverride(e)
      /\ Applicable(ApKeyed, tariffOut.month) = {}
      /\ \A f \in RateFields :
           /\ tariffOut.ov[f] = ValuesOfOverride(apTariffs[e])[f]
           /\ tariffOut.merged[f] =
                IF ValuesOfOverride(apTariffs[e])[f] # Null
                THEN ValuesOfOverride(apTariffs[e])[f]
                ELSE tariffOut.base[f]
      /\ tariffOut.merged.source = "apartment"
      /\ tariffOut.merged.ym_from = ymFromAny(apTariffs[e])

\* two overrides, the earlier stored second, over a catalog entry that is in force at
\* the month: the earlier override's cold rate replaces the catalog's
C27_Witness ==
  /\ BeforeEveryOverride
  /\ Len(apTariffs) = 2 /\ Len(tariffs) = 1
  /\ StrLt(ymFromAny(apTariffs[2]), ymFromAny(apTariffs[1]))
  /\ StrLe(tariffs[1].ym_from, tariffOut.month)
  /\ apTariffs[2].cold # Null
  /\ tariffOut.merged.cold = apTariffs[2].cold
  /\ tariffOut.merged.cold # tariffOut.base.cold
  /\ tariffOut.merged.hot = tariffOut.base.hot
  /\ tariffOut.merged.source = "apartment"

\* ---------------------------------------------------------------- C28
\* C28: the utilities total of the summary card (latestRowComputed.counters) is the
\* total the meters table computes for the same month row (sumFact), whatever the
\* number of expected electric channels, the readings present and the T3 source.
C28_SummaryMatchesTable ==
  (rowOut.done /\ rowOut.by = "summary") => rowOut.sum = TableSum(row, eN)

\* ---------------------------------------------------------------- switching apartments
\* the two apartments of the list
ApartmentA == Apartment(1, NoText, 500, TRUE, NoMode, Null, Null, Null, NoText)
ApartmentB == [ApartmentA EXCEPT !.id = 2]

\* the server holds an open flag on a reading of each apartment
BothFlagged ==
  << ReviewFlagItem(1, 1, BillMonth, "cold", 1, "open"),
     ReviewFlagItem(2, 2, BillMonth, "hot", 1, "open") >>

\* the list is loaded, nothing is selected yet
InitHistory ==
  /\ tariffs = RowCatalog
  /\ apTariffs = <<>>
  /\ selected = NoApartment
  /\ row = NoRow
  /\ InitOuts
  /\ InitNoHistory
  /\ InitNoServerYm
  /\ InitNoBill
  /\ reviewFlags = <<>>
  /\ flagStore = BothFlagged
  /\ cellOut = NoCellOut
  /\ saveOut = NoSaveOut

NextHistory ==
  \/ \E a \in {ApartmentA, ApartmentB} : SelectApartment(a)
  \/ \E i \in 1..Len(calls) : ServerHandlesHistory(i)
  \/ \E i \in 1..Len(calls) : LoadHistoryReturns(i)
  \/ \E i \in 1..Len(calls) : LoadHistoryFails(i)
  \/ \E i \in 1..Len(calls) : ApartmentTariffsReturn(i)
  \/ \E i \in 1..Len(calls) : ApartmentTariffsFail(i)

SpecHistory == InitHistory /\ [][NextHistory]_vars

\* ---------------------------------------------------------------- C29
\* every request of every call has settled
AllSettled ==
  \A i \in 1..Len(calls) : calls[i].pc \in {"done", "failed"} /\ calls[i].tariffs # "get"

\* the client holds the rows and the open flags the server has for the apartment
HoldsHistoryOf(apartmentId) ==
  /\ history = ServerRows(apartmentId)
  /\ reviewFlags = OpenFlagsOf(flagStore, apartmentId)

\* C29: after apartment A and then apartment B were selected, in whatever order the
\* loadHistory responses arrive, once every request has settled the client holds the
\* history rows and the open review flags of the selected apartment (or none, when
\* a load failed).
C29_NoStaleHistory ==
  (AllSettled /\ selected # NoApartment) =>
    \/ HoldsHistoryOf(selected.id)
    \/ history = <<>> /\ reviewFlags = <<>>

\* ---------------------------------------------------------------- the dialog opened again
\* the month after BillMonth: the row historyWithFuture adds
NextMonth == Ym(2026, 2)

\* BillMonth waits for the operator, NextMonth lacks the T3 photo
DialogBills ==
  [ k \in {Key(1, BillMonth), Key(1, NextMonth)} |->
      IF k.ym = BillMonth
      THEN ServerBill([reason |-> "pending_admin", missing |-> <<>>])
      ELSE ServerBill([reason |-> "missing_photos", missing |-> MissingE3]) ]

InitDialog ==
  /\ tariffs = RowCatalog
  /\ apTariffs = <<>>
  /\ selected = ApartmentA
  /\ row = NoRow
  /\ InitOuts
  /\ history = ServerRows(1)
  /\ InitNoServerYm
  /\ billInfo = NoBill
  /\ billLoading = FALSE
  /\ billErr = FALSE
  /\ calls = <<>>
  /\ server = DialogBills
  /\ editOpen = FALSE
  /\ editMonth = EmptyStr
  /\ InitNoFlags

NextDialog ==
  \/ \E month \in {BillMonth, NextMonth} : ~editOpen /\ OpenEdit(month)
  \/ CloseEdit
  \/ \E send \in BOOLEAN : ApproveBill(send)
  \/ SendBillWithoutT3Photo
  \/ \E i \in 1..Len(calls) : ServerHandlesPost(i)
  \/ \E i \in 1..Len(calls) : PostFails(i)
  \/ \E i \in 1..Len(calls) : PostReturns(i)
  \/ \E i \in 1..Len(calls) : ServerHandlesGet(i)
  \/ \E i \in 1..Len(calls) : LoadBillReturns(i)
  \/ \E i \in 1..Len(calls) : LoadBillFails(i)
  \/ \E i \in 1..Len(calls) : ServerHandlesHistory(i)
  \/ \E i \in 1..Len(calls) : LoadHistoryReturns(i)
  \/ \E i \in 1..Len(calls) : LoadHistoryFails(i)

SpecDialog == InitDialog /\ [][NextDialog]_vars

\* ---------------------------------------------------------------- C30
\* the bill the panel shows was computed for the apartment and the month the approve
\* and send buttons post for
ShownForTarget == billInfo.apartment_id = selected.id /\ billInfo.ym = editMonth

\* C30: whenever the edit dialog offers the approve or the send-without-T3-photo
\* action, the bill it shows (billInfo) was computed for the selected apartment and
\* editMonth, the pair the action is sent for; and every such action that was sent
\* went to the apartment and month of the bill shown when it was clicked.
C30_ActionMatchesBill ==
  /\ (ApproveOffered \/ SendWithoutT3Offered) => ShownForTarget
  /\ \A i \in 1..Len(calls) :
       IsBillPost(calls[i]) =>
         /\ calls[i].shown.apartment_id = calls[i].key.apartment_id
         /\ calls[i].shown.ym = calls[i].key.ym

====
